---- MODULE Spec2Model ----
(***************************************************************************)
(* Model of FollowTheProcess/collections: the dag package (Graph with      *)
(* Kahn's-algorithm Sort, src/dag/dag.go) and the priority package (binary *)
(* max-heap Queue, src/priority/queue.go), together with the set and queue *)
(* primitives the graph is built on.                                       *)
(***************************************************************************)
EXTENDS Integers, Sequences, FiniteSets, TLC

\* ------------------------------------------------------------------ bounds
MaxIds == 3        \* vertex ids are 1..MaxIds
MaxCalls == 6      \* calls made on one Graph
MaxResult == 8     \* entries of Sort's result slice that are recorded
MaxQueue == 8      \* length of Sort's queue
MaxSize == 5       \* elements held by a priority queue
MaxPriority == 2   \* priorities are 0..MaxPriority
MaxInput == 4      \* items a caller builds its three queues from
MaxCount == 3      \* times a counter counts one item
MaxNodes == 5      \* nodes one list allocates
MaxFifo == 4       \* items in the FIFO queue
MaxHeap == 4       \* elements of a container that is heapified by steps
MaxPushes == 3     \* pushes that are told apart by their number
MaxAlias == 2      \* elements of the slice a caller passes to From
MaxSets == 3       \* sets passed to one set function
MaxSetItem == 2    \* the sets hold items 1..MaxSetItem
MaxRace == 2       \* elements of the queue before the two calls of Push

Ids == 1..MaxIds
Items == {"x", "y"}          \* payloads stored in vertices and queue elements
ZeroItem == ""               \* Go's zero value of the payload type
Priorities == 0..MaxPriority

VARIABLES
    vertices,            \* Graph.vertices: id -> [parents, children, item]
    edges,               \* Graph.edges
    pc,                  \* "idle", or "loop" while Sort runs its queue loop
    zeroInDegreeQueue,   \* Sort's local FIFO queue (its container slice)
    result,              \* Sort's local result slice
    ret,                 \* the last call that returned, with what it returned
    calls,               \* number of calls made on the graph
    sortCalls,           \* number of those calls that were Sort
    prevSort,            \* whether the call before the latest one was Sort
    firstItem,           \* id -> item given to the first successful AddVertex
    container,           \* priority.Queue.container
    built,               \* whether the priority queue has been constructed
    pqRet,               \* the last priority queue call, with what it returned
    pqTick,              \* flips at every priority queue call
    held,                \* element -> times inserted minus times popped
    given,               \* the items a caller builds three queues from
    priorityOf,          \* that caller's priority function, item -> priority
    made,                \* which of From and FromFunc the caller has called
    fromQ,               \* container of the queue it made with From
    funcQ,               \* container of the queue it made with FromFunc
    pushQ,               \* container of the queue it made with New and Push
    pending,             \* indices of `given` it has not pushed yet
    counts,              \* Counter.counts: item -> count
    ctrRet,              \* the last counter call, with what it returned
    list,                \* a list.List: its nodes, first, last and len
    lRet,                \* the last list call, with what it returned
    lTick,               \* flips at every list call
    handles,             \* nodes the caller was returned and has not removed
    fromAppend,          \* those of them that Append returned
    inner,               \* orderedmap.Map.inner: key -> entry (value, node)
    mlist,               \* orderedmap.Map.list
    keyOrder,            \* the keys present, in the order they were inserted
    mRet,                \* the last ordered map call, with what it returned
    fifo,                \* queue.Queue.container
    waiting,             \* the items pushed and not yet popped, oldest first
    fRet,                \* the last queue call, with what it returned
    fTick,               \* flips at every queue call
    sets,                \* the sets a caller passes to the set functions
    setsNil,             \* whether it passes no variadic argument at all
    setRet,              \* function name -> what that function returned
    hq,                  \* container of a queue while From heapifies it
    hi,                  \* index the loop of init is at, -1 once it is done
    hOp,                 \* the last step on that queue, with the index sifted
    tq,                  \* container of a queue whose items are push numbers
    tn,                  \* the number of pushes made on it
    tpops,               \* the elements popped from it, in order
    backing,             \* the arrays in memory that slices of Element point into
    callerSlice,         \* the caller's slice: its array and length
    owned,               \* container of the queue From made of it: array and length
    setHeap,             \* the sets in memory: pointer -> set
    unionIn,             \* the pointers a caller passes to Union
    unionOut,            \* the pointer Union returned, 0 before the call
    rq,                  \* container of a queue on which two Push calls run at once
    rpc,                 \* where each of the two calls stands
    rloc,                \* the locals of each of the two calls
    rhist                \* what the queue held at first; whether the calls overlapped

dagVars == <<vertices, edges, pc, zeroInDegreeQueue, result, ret, calls,
             sortCalls, prevSort, firstItem>>

pqVars == <<container, built, pqRet, pqTick, held>>

bldVars == <<given, priorityOf, made, fromQ, funcQ, pushQ, pending>>

ctrVars == <<counts, ctrRet>>

lstVars == <<list, lRet, lTick, handles, fromAppend>>

mapVars == <<inner, mlist, keyOrder, mRet>>

fifoVars == <<fifo, waiting, fRet, fTick>>

setVars == <<sets, setsNil, setRet>>

hpVars == <<hq, hi, hOp>>

stVars == <<tq, tn, tpops>>

alVars == <<backing, callerSlice, owned>>

unVars == <<setHeap, unionIn, unionOut>>

rcVars == <<rq, rpc, rloc, rhist>>

vars == <<dagVars, pqVars, bldVars, ctrVars, lstVars, mapVars, fifoVars,
          setVars, hpVars, stVars, alVars, unVars, rcVars>>

\* The memory of the last sections.
lastVars == <<alVars, unVars, rcVars>>

\* The containers of the later sections.
laterVars == <<lstVars, mapVars, fifoVars, setVars, hpVars, stVars, lastVars>>

notDagVars == <<pqVars, bldVars, ctrVars, laterVars>>
notPqVars == <<dagVars, bldVars, ctrVars, laterVars>>
notBldVars == <<dagVars, pqVars, ctrVars, laterVars>>
notCtrVars == <<dagVars, pqVars, bldVars, laterVars>>
earlierVars == <<dagVars, pqVars, bldVars, ctrVars>>
notLstVars == <<earlierVars, mapVars, fifoVars, setVars, hpVars, stVars, lastVars>>
notMapVars == <<earlierVars, lstVars, fifoVars, setVars, hpVars, stVars, lastVars>>
notFifoVars == <<earlierVars, lstVars, mapVars, setVars, hpVars, stVars, lastVars>>
notSetVars == <<earlierVars, lstVars, mapVars, fifoVars, hpVars, stVars, lastVars>>
notHpVars == <<earlierVars, lstVars, mapVars, fifoVars, setVars, stVars, lastVars>>
notAlVars == <<earlierVars, lstVars, mapVars, fifoVars, setVars, hpVars, stVars,
               unVars, rcVars>>
notUnVars == <<earlierVars, lstVars, mapVars, fifoVars, setVars, hpVars, stVars,
               alVars, rcVars>>
notRcVars == <<earlierVars, lstVars, mapVars, fifoVars, setVars, hpVars, stVars,
               alVars, unVars>>
notStVars == <<earlierVars, lstVars, mapVars, fifoVars, setVars, hpVars, lastVars>>

\* ------------------------------------------------------- set.Set, queue.Queue
\* set.Set[T]: a Go map[T]struct{} is a finite set.
SetNew == {}
SetInsert(s, item) == s \cup {item}
SetRemove(s, item) == s \ {item}
SetSize(s) == Cardinality(s)

\* All the orders in which a range over a Go map can yield the members of s.
RECURSIVE Orders(_)
Orders(s) ==
    IF s = {} THEN {<<>>}
    ELSE UNION {{<<x>> \o o : o \in Orders(s \ {x})} : x \in s}

\* queue.Queue[T]: a slice, pushed at the back and popped at the front.
QueueNew == <<>>
\* Push that puts the item at the front of the queue.
QueuePushFront(q, item) == <<item>> \o q

QueuePush(q, item) == Append(q, item)
QueueIsEmpty(q) == Len(q) = 0
\* Pop that takes the item pushed last.
QueuePopLast(q) == [item |-> q[Len(q)], container |-> SubSeq(q, 1, Len(q) - 1)]

QueuePop(q) == [item |-> Head(q), container |-> Tail(q)]

\* ------------------------------------------------------------------ dag
newVertex(item) == [parents |-> SetNew, children |-> SetNew, item |-> item]
inDegree(v) == SetSize(v.parents)

Order(vs) == Cardinality(DOMAIN vs)
GraphSize(e) == e

\* What a call returned: op and its arguments, the error ("none" for nil), the
\* item returned (GetVertex), a boolean (ContainsVertex), a number (Order, Size)
\* and the slice returned by Sort (isNil for Go's nil slice).
Ret(op, id, to, err, item, isNil, res, num, ok) ==
    [op |-> op, id |-> id, to |-> to, err |-> err, item |-> item,
     isNil |-> isNil, result |-> res, num |-> num, ok |-> ok]

NoRet == Ret("none", 0, 0, "none", ZeroItem, TRUE, <<>>, 0, FALSE)

\* Every call starts from the idle state and is counted.
Call(isSort) ==
    /\ pc = "idle"
    /\ calls < MaxCalls
    /\ calls' = calls + 1
    /\ sortCalls' = IF isSort THEN sortCalls + 1 ELSE sortCalls
    /\ prevSort' = (ret.op = "Sort")
    /\ UNCHANGED notDagVars

\* AddVertex that stores the new item before it reports the duplicate.
AddVertexOverwrites(id, item) ==
    /\ Call(FALSE)
    /\ IF id \in DOMAIN vertices
       THEN /\ ret' = Ret("AddVertex", id, 0, "exists", item, TRUE, <<>>, 0, FALSE)
            /\ vertices' = [vertices EXCEPT ![id].item = item]
            /\ UNCHANGED firstItem
       ELSE /\ vertices' = (id :> newVertex(item)) @@ vertices
            /\ firstItem' = (id :> item) @@ firstItem
            /\ ret' = Ret("AddVertex", id, 0, "none", item, TRUE, <<>>, 0, FALSE)
    /\ UNCHANGED <<edges, pc, zeroInDegreeQueue, result>>

AddVertex(id, item) ==
    /\ Call(FALSE)
    /\ IF id \in DOMAIN vertices
       THEN /\ ret' = Ret("AddVertex", id, 0, "exists", item, TRUE, <<>>, 0, FALSE)
            /\ UNCHANGED <<vertices, firstItem>>
       ELSE /\ vertices' = (id :> newVertex(item)) @@ vertices
            /\ firstItem' = (id :> item) @@ firstItem
            /\ ret' = Ret("AddVertex", id, 0, "none", item, TRUE, <<>>, 0, FALSE)
    /\ UNCHANGED <<edges, pc, zeroInDegreeQueue, result>>

\* GetVertex that finds the vertex and returns the zero value, not its item.
GetVertexOfZero(vs, id) ==
    IF id \notin DOMAIN vs
    THEN [item |-> ZeroItem, err |-> "notfound"]
    ELSE [item |-> ZeroItem, err |-> "none"]

\* GetVertex as the pair (item, error) it returns.
GetVertexOf(vs, id) ==
    IF id \notin DOMAIN vs
    THEN [item |-> ZeroItem, err |-> "notfound"]
    ELSE [item |-> vs[id].item, err |-> "none"]

GetVertex(id) ==
    /\ Call(FALSE)
    /\ LET got == GetVertexOf(vertices, id)
       IN ret' = Ret("GetVertex", id, 0, got.err, got.item, TRUE, <<>>, 0, FALSE)
    /\ UNCHANGED <<vertices, edges, pc, zeroInDegreeQueue, result, firstItem>>

ContainsVertexOf(vs, id) == id \in DOMAIN vs

ContainsVertex(id) ==
    /\ Call(FALSE)
    /\ ret' = Ret("ContainsVertex", id, 0, "none", ZeroItem, TRUE, <<>>, 0,
                  ContainsVertexOf(vertices, id))
    /\ UNCHANGED <<vertices, edges, pc, zeroInDegreeQueue, result, firstItem>>

\* AddEdge that looks the child up before the parent.
AddEdgeChildFirst(from, to) ==
    /\ Call(FALSE)
    /\ IF to \notin DOMAIN vertices
       THEN /\ ret' = Ret("AddEdge", from, to, "child", ZeroItem, TRUE, <<>>, 0, FALSE)
            /\ UNCHANGED <<vertices, edges>>
       ELSE IF from \notin DOMAIN vertices
       THEN /\ ret' = Ret("AddEdge", from, to, "parent", ZeroItem, TRUE, <<>>, 0, FALSE)
            /\ UNCHANGED <<vertices, edges>>
       ELSE LET withChild ==
                    [vertices EXCEPT ![from].children = SetInsert(@, to)]
            IN /\ vertices' =
                      [withChild EXCEPT ![to].parents = SetInsert(@, from)]
               /\ edges' = edges + 1
               /\ ret' = Ret("AddEdge", from, to, "none", ZeroItem, TRUE, <<>>, 0, FALSE)
    /\ UNCHANGED <<pc, zeroInDegreeQueue, result, firstItem>>

\* AddEdge that counts an edge only when the parent did not have that child yet.
AddEdgeCountsNew(from, to) ==
    /\ Call(FALSE)
    /\ IF from \notin DOMAIN vertices
       THEN /\ ret' = Ret("AddEdge", from, to, "parent", ZeroItem, TRUE, <<>>, 0, FALSE)
            /\ UNCHANGED <<vertices, edges>>
       ELSE IF to \notin DOMAIN vertices
       THEN /\ ret' = Ret("AddEdge", from, to, "child", ZeroItem, TRUE, <<>>, 0, FALSE)
            /\ UNCHANGED <<vertices, edges>>
       ELSE LET withChild ==
                    [vertices EXCEPT ![from].children = SetInsert(@, to)]
            IN /\ vertices' =
                      [withChild EXCEPT ![to].parents = SetInsert(@, from)]
               /\ edges' = IF to \in vertices[from].children THEN edges ELSE edges + 1
               /\ ret' = Ret("AddEdge", from, to, "none", ZeroItem, TRUE, <<>>, 0, FALSE)
    /\ UNCHANGED <<pc, zeroInDegreeQueue, result, firstItem>>

AddEdge(from, to) ==
    /\ Call(FALSE)
    /\ IF from \notin DOMAIN vertices
       THEN /\ ret' = Ret("AddEdge", from, to, "parent", ZeroItem, TRUE, <<>>, 0, FALSE)
            /\ UNCHANGED <<vertices, edges>>
       ELSE IF to \notin DOMAIN vertices
       THEN /\ ret' = Ret("AddEdge", from, to, "child", ZeroItem, TRUE, <<>>, 0, FALSE)
            /\ UNCHANGED <<vertices, edges>>
       ELSE LET withChild ==
                    [vertices EXCEPT ![from].children = SetInsert(@, to)]
            IN /\ vertices' =
                      [withChild EXCEPT ![to].parents = SetInsert(@, from)]
               /\ edges' = edges + 1
               /\ ret' = Ret("AddEdge", from, to, "none", ZeroItem, TRUE, <<>>, 0, FALSE)
    /\ UNCHANGED <<pc, zeroInDegreeQueue, result, firstItem>>

\* The vertices Sort's first loop pushes: those with in-degree 0.
ZeroInDegree(vs) == {id \in DOMAIN vs : inDegree(vs[id]) = 0}

\* Sort that returns its (empty, non-nil) result slice with the cycle error.
SortCallReturnsResult ==
    /\ Call(TRUE)
    /\ \E scan \in Orders(ZeroInDegree(vertices)) :
          IF QueueIsEmpty(scan)
          THEN /\ ret' = Ret("Sort", 0, 0, "cycle", ZeroItem, FALSE, <<>>, 0, FALSE)
               /\ UNCHANGED <<pc, zeroInDegreeQueue, result>>
          ELSE /\ pc' = "loop"
               /\ zeroInDegreeQueue' = scan
               /\ result' = <<>>
               /\ UNCHANGED ret
    /\ UNCHANGED <<vertices, edges, firstItem>>

\* Sort up to its queue loop: the scan of g.vertices (in any map order) and the
\* early return when nothing was pushed.
SortCall ==
    /\ Call(TRUE)
    /\ \E scan \in Orders(ZeroInDegree(vertices)) :
          IF QueueIsEmpty(scan)
          THEN /\ ret' = Ret("Sort", 0, 0, "cycle", ZeroItem, TRUE, <<>>, 0, FALSE)
               /\ UNCHANGED <<pc, zeroInDegreeQueue, result>>
          ELSE /\ pc' = "loop"
               /\ zeroInDegreeQueue' = scan
               /\ result' = <<>>
               /\ UNCHANGED ret
    /\ UNCHANGED <<vertices, edges, firstItem>>

\* The inner loop of Sort that also takes each child out of vert's children.
RECURSIVE ForChildrenUnlinks(_, _, _, _)
ForChildrenUnlinks(order, vert, vs, q) ==
    IF order = <<>> THEN [vertices |-> vs, queue |-> q]
    ELSE LET child == Head(order)
             vs1 == [vs EXCEPT ![child].parents = SetRemove(@, vert),
                               ![vert].children = SetRemove(@, child)]
             q1 == IF inDegree(vs1[child]) = 0 THEN QueuePush(q, child) ELSE q
         IN ForChildrenUnlinks(Tail(order), vert, vs1, q1)

\* The inner loop of Sort over vert's children in the order `order`:
\* each child loses vert as a parent and is pushed when its in-degree is 0.
RECURSIVE ForChildren(_, _, _, _)
ForChildren(order, vert, vs, q) ==
    IF order = <<>> THEN [vertices |-> vs, queue |-> q]
    ELSE LET child == Head(order)
             vs1 == [vs EXCEPT ![child].parents = SetRemove(@, vert)]
             q1 == IF inDegree(vs1[child]) = 0 THEN QueuePush(q, child) ELSE q
         IN ForChildren(Tail(order), vert, vs1, q1)

\* append(result, item). The slice is recorded up to MaxResult entries; the
\* loop never reads it, so what it holds beyond that changes no step.
AppendResult(res, item) ==
    IF Len(res) < MaxResult THEN Append(res, item) ELSE res

\* One iteration of Sort's queue loop.
SortLoop ==
    /\ pc = "loop"
    /\ ~QueueIsEmpty(zeroInDegreeQueue)
    /\ LET popped == QueuePop(zeroInDegreeQueue)
           vert == popped.item
       IN /\ result' = AppendResult(result, vertices[vert].item)
          /\ \E order \in Orders(vertices[vert].children) :
                LET out == ForChildren(order, vert, vertices, popped.container)
                IN /\ Len(out.queue) <= MaxQueue
                   /\ vertices' = out.vertices
                   /\ zeroInDegreeQueue' = out.queue
    /\ UNCHANGED <<edges, pc, ret, calls, sortCalls, prevSort, firstItem>>
    /\ UNCHANGED notDagVars

\* The queue has drained: Sort returns its result.
SortReturn ==
    /\ pc = "loop"
    /\ QueueIsEmpty(zeroInDegreeQueue)
    /\ ret' = Ret("Sort", 0, 0, "none", ZeroItem, FALSE, result, 0, FALSE)
    /\ pc' = "idle"
    /\ result' = <<>>
    /\ UNCHANGED <<vertices, edges, zeroInDegreeQueue, calls, sortCalls,
                   prevSort, firstItem>>
    /\ UNCHANGED notDagVars

\* ------------------------------------------------------------- priority
\* Division that rounds toward minus infinity.
FloorDiv(a, b) == a \div b

\* Go's integer division truncates toward zero.
GoDiv(a, b) == IF a >= 0 THEN a \div b ELSE -((-a) \div b)

Element(item, priority) == [Item |-> item, Priority |-> priority]
Elements == {Element(item, priority) : item \in Items, priority \in Priorities}

\* Sequences over S of length at most n.
SeqUpTo(S, n) == UNION {[1..k -> S] : k \in 0..n}

\* q.container[i], with Go's indices from 0.
At(c, i) == c[i + 1]

\* swap that copies element j over element i and leaves element j where it is.
swapCopies(c, i, j) == [c EXCEPT ![i + 1] = c[j + 1]]

swap(c, i, j) == [c EXCEPT ![i + 1] = c[j + 1], ![j + 1] = c[i + 1]]

\* less that also holds between elements of equal priority.
lessOrEqual(c, i, j) == At(c, i).Priority >= At(c, j).Priority

\* less that orders the heap by lowest priority first.
lessIsLower(c, i, j) == At(c, i).Priority < At(c, j).Priority

less(c, i, j) == At(c, i).Priority > At(c, j).Priority

\* siftUp that swaps only while the element's priority is strictly greater than
\* its parent's.
RECURSIVE siftUpStrict(_, _)
siftUpStrict(c, index) ==
    LET parent == GoDiv(index - 1, 2)
    IN IF parent = index \/ At(c, index).Priority <= At(c, parent).Priority
       THEN c
       ELSE siftUpStrict(swap(c, parent, index), parent)

\* siftUp that moves the element up one level at most.
siftUpOnce(c, index) ==
    LET parent == GoDiv(index - 1, 2)
    IN IF parent = index \/ At(c, index).Priority < At(c, parent).Priority
       THEN c
       ELSE swap(c, parent, index)

RECURSIVE siftUp(_, _)
siftUp(c, index) ==
    LET parent == GoDiv(index - 1, 2)
    IN IF parent = index \/ At(c, index).Priority < At(c, parent).Priority
       THEN c
       ELSE siftUp(swap(c, parent, index), parent)

\* siftDown that never looks at the right child.
RECURSIVE siftDownLeftOnly(_, _, _)
siftDownLeftOnly(c, i, length) ==
    LET leftChild == 2 * i + 1
        toSwap == leftChild
    IN IF leftChild >= length \/ leftChild < 0 THEN [container |-> c, i |-> i]
       ELSE IF ~less(c, toSwap, i) THEN [container |-> c, i |-> i]
       ELSE siftDownLeftOnly(swap(c, i, toSwap), toSwap, length)

\* The loop of siftDown from index i: the container and the index it ends at.
RECURSIVE siftDownLoop(_, _, _)
siftDownLoop(c, i, length) ==
    LET leftChild == 2 * i + 1
        rightChild == leftChild + 1
        toSwap == IF rightChild < length /\ less(c, rightChild, leftChild)
                  THEN rightChild ELSE leftChild
    IN IF leftChild >= length \/ leftChild < 0 THEN [container |-> c, i |-> i]
       ELSE IF ~less(c, toSwap, i) THEN [container |-> c, i |-> i]
       ELSE siftDownLoop(swap(c, i, toSwap), toSwap, length)

siftDown(c, index, length) ==
    LET end == siftDownLoop(c, index, length)
    IN [container |-> end.container, moved |-> end.i > index]

\* The loop of init, from index i down to 0.
RECURSIVE initLoop(_, _, _)
initLoop(c, i, n) ==
    IF i >= 0 THEN initLoop(siftDown(c, i, n).container, i - 1, n) ELSE c

\* init that starts its loop one index too low.
initSkipsOne(c) == LET n == Len(c) IN initLoop(c, GoDiv(n, 2) - 2, n)

init(c) == LET n == Len(c) IN initLoop(c, GoDiv(n, 2) - 1, n)

\* Push as a function of the container: append, then sift the new element up.
Pushed(c, item, priority) ==
    LET appended == Append(c, Element(item, priority))
    IN siftUp(appended, Len(appended) - 1)

\* Pop as a function of the container: what it returns and what it leaves.
Popped(c) ==
    IF Len(c) = 0
    THEN [item |-> ZeroItem, priority |-> 0, err |-> "empty", container |-> c]
    ELSE LET n == Len(c) - 1
             swapped == swap(c, 0, n)
             elem == At(swapped, n)
             trimmed == SubSeq(swapped, 1, n)
         IN [item |-> elem.Item, priority |-> elem.Priority, err |-> "none",
             container |-> siftDown(trimmed, 0, n).container]

PrioritySize(c) == Len(c)
PriorityEmpty(c) == Len(c) = 0

\* What a priority queue call returned.
PqRet(op, item, priority, err, num, ok) ==
    [op |-> op, item |-> item, priority |-> priority, err |-> err,
     num |-> num, ok |-> ok]

NoPqRet == PqRet("none", ZeroItem, 0, "none", 0, FALSE)

\* A constructor makes the queue; the methods are called on a queue once made.
Construct == ~built /\ built' = TRUE /\ pqTick' = 1 - pqTick /\ UNCHANGED notPqVars
Method == built /\ UNCHANGED built /\ pqTick' = 1 - pqTick /\ UNCHANGED notPqVars

\* The elements of sequence c, counted.
BagOf(c) == [e \in Elements |-> Cardinality({k \in 1..Len(c) : c[k] = e})]

\* The pairs (items[k], priorityFunc(items[k])), counted.
BagOfItems(items, priorityFunc) ==
    [e \in Elements |->
        Cardinality({k \in 1..Len(items) :
                        items[k] = e.Item /\ priorityFunc[items[k]] = e.Priority})]

PriorityNew ==
    /\ Construct
    /\ container' = <<>>
    /\ held' = BagOf(<<>>)
    /\ pqRet' = PqRet("New", ZeroItem, 0, "none", 0, FALSE)

\* From as a function: the container of the queue it returns.
FromOf(elements) == init(<<>> \o elements)

PriorityFrom(elements) ==
    /\ Construct
    /\ container' = FromOf(elements)
    /\ held' = BagOf(elements)
    /\ pqRet' = PqRet("From", ZeroItem, 0, "none", Len(elements), FALSE)

\* The container FromFunc builds before it heapifies.
RECURSIVE withPriorities(_, _, _)
withPriorities(c, items, priorityFunc) ==
    IF items = <<>> THEN c
    ELSE withPriorities(
             Append(c, Element(Head(items), priorityFunc[Head(items)])),
             Tail(items), priorityFunc)

\* FromFunc as a function: the container of the queue it returns.
FromFuncOf(items, priorityFunc) == init(withPriorities(<<>>, items, priorityFunc))

PriorityFromFunc(items, priorityFunc) ==
    /\ Construct
    /\ container' = FromFuncOf(items, priorityFunc)
    /\ held' = BagOfItems(items, priorityFunc)
    /\ pqRet' = PqRet("FromFunc", ZeroItem, 0, "none", Len(items), FALSE)

PriorityPush(item, priority) ==
    /\ Method
    /\ Len(container) < MaxSize
    /\ container' = Pushed(container, item, priority)
    /\ held' = [held EXCEPT ![Element(item, priority)] = @ + 1]
    /\ pqRet' = PqRet("Push", item, priority, "none", 0, FALSE)

\* Pop that takes the last element without first swapping the root into its place.
PriorityPopLast ==
    /\ Method
    /\ IF Len(container) = 0
       THEN /\ pqRet' = PqRet("Pop", ZeroItem, 0, "empty", 0, FALSE)
            /\ UNCHANGED <<container, held>>
       ELSE LET n == Len(container) - 1
                elem == At(container, n)
                trimmed == SubSeq(container, 1, n)
            IN /\ container' = siftDown(trimmed, 0, n).container
               /\ held' = [held EXCEPT ![elem] = @ - 1]
               /\ pqRet' = PqRet("Pop", elem.Item, elem.Priority, "none", 0, FALSE)

\* Pop that reports no error on an empty queue.
PriorityPopNoError ==
    /\ Method
    /\ LET out == Popped(container)
       IN /\ container' = out.container
          /\ pqRet' = PqRet("Pop", out.item, out.priority, "none", 0, FALSE)
          /\ held' = IF out.err = "none"
                     THEN [held EXCEPT ![Element(out.item, out.priority)] = @ - 1]
                     ELSE held

PriorityPop ==
    /\ Method
    /\ LET out == Popped(container)
       IN /\ container' = out.container
          /\ pqRet' = PqRet("Pop", out.item, out.priority, out.err, 0, FALSE)
          /\ held' = IF out.err = "none"
                     THEN [held EXCEPT ![Element(out.item, out.priority)] = @ - 1]
                     ELSE held

PrioritySizeCall ==
    /\ Method
    /\ pqRet' = PqRet("Size", ZeroItem, 0, "none", PrioritySize(container), FALSE)
    /\ UNCHANGED <<container, held>>

PriorityEmptyCall ==
    /\ Method
    /\ pqRet' = PqRet("Empty", ZeroItem, 0, "none", 0, PriorityEmpty(container))
    /\ UNCHANGED <<container, held>>

InitPriority ==
    /\ container = <<>>
    /\ built = FALSE
    /\ pqRet = NoPqRet
    /\ pqTick = 0
    /\ held = BagOf(<<>>)

NextPriority ==
    \/ PriorityNew
    \/ /\ ~built
       /\ \E elements \in SeqUpTo(Elements, MaxSize) : PriorityFrom(elements)
    \/ /\ ~built
       /\ \E items \in SeqUpTo(Items, MaxSize), priorityFunc \in [Items -> Priorities] :
             PriorityFromFunc(items, priorityFunc)
    \/ \E item \in Items, priority \in Priorities : PriorityPush(item, priority)
    \/ PriorityPop
    \/ PrioritySizeCall
    \/ PriorityEmptyCall

\* ----------------------------------------- three ways to build a queue
\* A caller holds items (told apart by number) and a priority function, and
\* builds a queue from them with From, one with FromFunc and one with New and
\* Push, pushing the items in any order.
BuildPriorities == 1..MaxInput

\* The elements the caller hands to From: each item with its priority.
GivenElements == [k \in 1..Len(given) |-> Element(given[k], priorityOf[given[k]])]

InitBuild ==
    /\ \E n \in 0..MaxInput :
          /\ given = [k \in 1..n |-> k]
          /\ priorityOf \in [1..n -> BuildPriorities]
          /\ pending = 1..n
    /\ made = {}
    /\ fromQ = <<>>
    /\ funcQ = <<>>
    /\ pushQ = <<>>

\* No caller: nothing is given and nothing is built.
NoBuild ==
    /\ given = <<>>
    /\ priorityOf = <<>>
    /\ pending = {}
    /\ made = {}
    /\ fromQ = <<>>
    /\ funcQ = <<>>
    /\ pushQ = <<>>

BuildFrom ==
    /\ made = {}
    /\ made' = {"From"}
    /\ fromQ' = FromOf(GivenElements)
    /\ UNCHANGED <<given, priorityOf, funcQ, pushQ, pending>>
    /\ UNCHANGED notBldVars

BuildFromFunc ==
    /\ made = {"From"}
    /\ made' = {"From", "FromFunc"}
    /\ funcQ' = FromFuncOf(given, priorityOf)
    /\ UNCHANGED <<given, priorityOf, fromQ, pushQ, pending>>
    /\ UNCHANGED notBldVars

BuildPush(k) ==
    /\ made = {"From", "FromFunc"}
    /\ k \in pending
    /\ pending' = pending \ {k}
    /\ pushQ' = Pushed(pushQ, given[k], priorityOf[given[k]])
    /\ UNCHANGED <<given, priorityOf, made, fromQ, funcQ>>
    /\ UNCHANGED notBldVars

NextBuild ==
    \/ BuildFrom
    \/ BuildFromFunc
    \/ \E k \in 1..MaxInput : BuildPush(k)

\* The elements a caller gets by popping container c until Pop reports empty.
RECURSIVE PopAll(_)
PopAll(c) ==
    LET out == Popped(c)
    IN IF out.err # "none" THEN <<>>
       ELSE <<Element(out.item, out.priority)>> \o PopAll(out.container)

\* --------------------------------------------------------------- counter
CounterItems == {"a", "b", "c"}

\* What a counter call returned: the count (Add, Sub, Remove) or the slice of
\* Count entries (MostCommon).
CtrRet(op, item, n, num, res) ==
    [op |-> op, item |-> item, n |-> n, num |-> num, result |-> res]

NoCtrRet == CtrRet("none", ZeroItem, 0, 0, <<>>)

\* c.counts[item], which is 0 for an item the map does not hold.
CountOf(cs, item) == IF item \in DOMAIN cs THEN cs[item] ELSE 0

\* delete(c.counts, item)
Delete(cs, item) ==
    IF DOMAIN cs \subseteq {item} THEN <<>>
    ELSE [i \in DOMAIN cs \ {item} |-> cs[i]]

CounterSize(cs) == Cardinality(DOMAIN cs)

InitCounter ==
    /\ counts = <<>>
    /\ ctrRet = NoCtrRet

CounterAdd(item) ==
    /\ CountOf(counts, item) < MaxCount
    /\ IF item \notin DOMAIN counts
       THEN /\ counts' = (item :> 1) @@ counts
            /\ ctrRet' = CtrRet("Add", item, 0, 1, <<>>)
       ELSE LET v == counts[item] + 1
            IN /\ counts' = [counts EXCEPT ![item] = v]
               /\ ctrRet' = CtrRet("Add", item, 0, v, <<>>)
    /\ UNCHANGED notCtrVars

CounterSub(item) ==
    /\ IF item \in DOMAIN counts
       THEN LET v == counts[item] - 1
            IN IF v = 0
               THEN /\ counts' = Delete(counts, item)
                    /\ ctrRet' = CtrRet("Sub", item, 0, 0, <<>>)
               ELSE /\ counts' = [counts EXCEPT ![item] = v]
                    /\ ctrRet' = CtrRet("Sub", item, 0, v, <<>>)
       ELSE /\ ctrRet' = CtrRet("Sub", item, 0, 0, <<>>)
            /\ UNCHANGED counts
    /\ UNCHANGED notCtrVars

CounterRemove(item) ==
    /\ IF item \notin DOMAIN counts
       THEN /\ ctrRet' = CtrRet("Remove", item, 0, 0, <<>>)
            /\ UNCHANGED counts
       ELSE /\ counts' = Delete(counts, item)
            /\ ctrRet' = CtrRet("Remove", item, 0, counts[item], <<>>)
    /\ UNCHANGED notCtrVars

CounterReset ==
    /\ counts' = <<>>
    /\ ctrRet' = CtrRet("Reset", ZeroItem, 0, 0, <<>>)
    /\ UNCHANGED notCtrVars

\* The first loop of MostCommon: each item pushed with its count as priority,
\* in the order the range over the map yields them.
RECURSIVE PushCounts(_, _, _)
PushCounts(q, order, cs) ==
    IF order = <<>> THEN q
    ELSE PushCounts(Pushed(q, Head(order), cs[Head(order)]), Tail(order), cs)

\* The second loop of MostCommon: n pops, each appended with the item's count.
RECURSIVE PopCounts(_, _, _, _)
PopCounts(q, n, cs, results) ==
    IF n <= 0 THEN results
    ELSE LET out == Popped(q)
         IN PopCounts(out.container, n - 1, cs,
                      Append(results, [Item |-> out.item,
                                       Value |-> CountOf(cs, out.item)]))

MostCommonOf(cs, order, n) == PopCounts(PushCounts(<<>>, order, cs), n, cs, <<>>)

CounterMostCommon(n) ==
    /\ \E order \in Orders(DOMAIN counts) :
          ctrRet' = CtrRet("MostCommon", ZeroItem, n, 0, MostCommonOf(counts, order, n))
    /\ UNCHANGED counts
    /\ UNCHANGED notCtrVars

NextCounter ==
    \/ \E item \in CounterItems : CounterAdd(item)
    \/ \E item \in CounterItems : CounterSub(item)
    \/ \E item \in CounterItems : CounterRemove(item)
    \/ CounterReset
    \/ \E n \in 0..(Cardinality(CounterItems) + 1) : CounterMostCommon(n)

\* ------------------------------------------------------------------ list
\* A list is its nodes (node n is nodes[n]; 0 is the nil pointer) with the
\* first, last and len fields. Nodes are never freed.
ListNew == [nodes |-> <<>>, first |-> 0, last |-> 0, len |-> 0]

\* NewNode: the list with a fresh node allocated, and that node.
NewNode(l, item) ==
    [list |-> [l EXCEPT !.nodes = Append(@, [item |-> item, prev |-> 0, next |-> 0])],
     node |-> Len(l.nodes) + 1]

insertAfter(l, after, node) ==
    LET n1 == [l.nodes EXCEPT ![node].prev = after]
        afterNext == n1[after].next
        n2 == IF afterNext # 0
              THEN [n1 EXCEPT ![node].next = afterNext, ![afterNext].prev = node]
              ELSE [n1 EXCEPT ![node].next = 0]
    IN [nodes |-> [n2 EXCEPT ![after].next = node],
        first |-> l.first,
        last |-> IF afterNext # 0 THEN l.last ELSE node,
        len |-> l.len + 1]

insertBefore(l, before, node) ==
    LET n1 == [l.nodes EXCEPT ![node].next = before]
        beforePrev == n1[before].prev
        n2 == IF beforePrev # 0
              THEN [n1 EXCEPT ![node].prev = beforePrev, ![beforePrev].next = node]
              ELSE [n1 EXCEPT ![node].prev = 0]
    IN [nodes |-> [n2 EXCEPT ![before].prev = node],
        first |-> IF beforePrev # 0 THEN l.first ELSE node,
        last |-> l.last,
        len |-> l.len + 1]

remove(l, node) ==
    LET prev == l.nodes[node].prev
        next == l.nodes[node].next
        n1 == IF prev # 0 THEN [l.nodes EXCEPT ![prev].next = next] ELSE l.nodes
        n2 == IF next # 0 THEN [n1 EXCEPT ![next].prev = prev] ELSE n1
    IN [nodes |-> [n2 EXCEPT ![node].next = 0, ![node].prev = 0],
        first |-> IF prev # 0 THEN l.first ELSE next,
        last |-> IF next # 0 THEN l.last ELSE prev,
        len |-> l.len - 1]

\* Prepend as a function: the list it leaves and the node it returns.
PrependOf(l, item) ==
    LET new == NewNode(l, item)
    IN IF l.first # 0
       THEN [list |-> insertBefore(new.list, l.first, new.node), node |-> new.node]
       ELSE [list |-> [new.list EXCEPT !.first = new.node, !.last = new.node,
                                       !.len = @ + 1],
             node |-> new.node]

\* Append as a function: on an empty list it calls Prepend, which makes a node
\* of its own, and returns the node Append made.
AppendOf(l, item) ==
    LET new == NewNode(l, item)
    IN IF l.last # 0
       THEN [list |-> insertAfter(new.list, l.last, new.node), node |-> new.node]
       ELSE [list |-> PrependOf(new.list, item).list, node |-> new.node]

\* First and Last as the pair (node, error) they return.
FirstOf(l) == IF l.first = 0 THEN [node |-> 0, err |-> "empty"]
              ELSE [node |-> l.first, err |-> "none"]

LastOf(l) == IF l.last = 0 THEN [node |-> 0, err |-> "empty"]
             ELSE [node |-> l.last, err |-> "none"]

\* The nodes All walks over, from elem along next; a list of n nodes has no
\* longer walk.
RECURSIVE Walk(_, _, _)
Walk(l, elem, fuel) ==
    IF elem = 0 \/ fuel = 0 THEN <<>>
    ELSE <<elem>> \o Walk(l, l.nodes[elem].next, fuel - 1)

NodesOf(l) == Walk(l, l.first, Len(l.nodes))

\* All: the items of the list, in order.
ItemsOf(l) == LET ns == NodesOf(l) IN [k \in 1..Len(ns) |-> l.nodes[ns[k]].item]

\* The nodes Backwards walks over, from elem along prev.
RECURSIVE WalkBack(_, _, _)
WalkBack(l, elem, fuel) ==
    IF elem = 0 \/ fuel = 0 THEN <<>>
    ELSE <<elem>> \o WalkBack(l, l.nodes[elem].prev, fuel - 1)

\* Backwards: the items of the list from last along prev.
BackwardsOf(l) ==
    LET ns == WalkBack(l, l.last, Len(l.nodes))
    IN [k \in 1..Len(ns) |-> l.nodes[ns[k]].item]

\* What a list call returned: the node (0 for nil) and the error.
LRet(op, item, node, err) == [op |-> op, item |-> item, node |-> node, err |-> err]

InitList ==
    /\ list = ListNew
    /\ lRet = LRet("none", ZeroItem, 0, "none")
    /\ lTick = 0
    /\ handles = {}
    /\ fromAppend = {}

ListCall == lTick' = 1 - lTick /\ UNCHANGED notLstVars

\* The nodes a call allocates fit the bound.
Allocates(l, n) == Len(l.nodes) + n <= MaxNodes

ListAppend(item) ==
    /\ ListCall
    /\ Allocates(list, IF list.last # 0 THEN 1 ELSE 2)
    /\ LET out == AppendOf(list, item)
       IN /\ list' = out.list
          /\ lRet' = LRet("Append", item, out.node, "none")
          /\ handles' = handles \cup {out.node}
          /\ fromAppend' = fromAppend \cup {out.node}

ListPrepend(item) ==
    /\ ListCall
    /\ Allocates(list, 1)
    /\ LET out == PrependOf(list, item)
       IN /\ list' = out.list
          /\ lRet' = LRet("Prepend", item, out.node, "none")
          /\ handles' = handles \cup {out.node}
          /\ UNCHANGED fromAppend

\* Remove, called with a node the caller was returned and has not removed.
ListRemove(node) ==
    /\ ListCall
    /\ node \in handles
    /\ list' = remove(list, node)
    /\ lRet' = LRet("Remove", list.nodes[node].item, node, "none")
    /\ handles' = handles \ {node}
    /\ fromAppend' = fromAppend \ {node}

ListPop ==
    /\ ListCall
    /\ IF list.last = 0
       THEN /\ lRet' = LRet("Pop", ZeroItem, 0, "empty")
            /\ UNCHANGED <<list, handles, fromAppend>>
       ELSE /\ list' = remove(list, list.last)
            /\ lRet' = LRet("Pop", list.nodes[list.last].item, list.last, "none")
            /\ handles' = handles \ {list.last}
            /\ fromAppend' = fromAppend \ {list.last}

ListPopFirst ==
    /\ ListCall
    /\ IF list.first = 0
       THEN /\ lRet' = LRet("PopFirst", ZeroItem, 0, "empty")
            /\ UNCHANGED <<list, handles, fromAppend>>
       ELSE /\ list' = remove(list, list.first)
            /\ lRet' = LRet("PopFirst", list.nodes[list.first].item, list.first, "none")
            /\ handles' = handles \ {list.first}
            /\ fromAppend' = fromAppend \ {list.first}

NextList ==
    \/ \E item \in Items : ListAppend(item)
    \/ \E item \in Items : ListPrepend(item)
    \/ \E node \in 1..MaxNodes : ListRemove(node)
    \/ ListPop
    \/ ListPopFirst

\* ----------------------------------------------------------- ordered map
MapKeys == 1..3

\* An entry is reached through its key: the list holds, for the pointer to an
\* entry, the key of that entry.
Entry(key, value, node) == [key |-> key, value |-> value, node |-> node]

\* What a map call returned.
MRet(op, key, value, ok) == [op |-> op, key |-> key, value |-> value, ok |-> ok]

InitMap ==
    /\ inner = <<>>
    /\ mlist = ListNew
    /\ keyOrder = <<>>
    /\ mRet = MRet("none", 0, ZeroItem, FALSE)

MapContains(key) == key \in DOMAIN inner

MapSize == mlist.len

\* Keys: the keys of the entries the list holds, in the order of the list.
KeysOf(l) == ItemsOf(l)

\* s without the entries equal to key.
RECURSIVE Without(_, _)
Without(s, key) ==
    IF s = <<>> THEN <<>>
    ELSE IF Head(s) = key THEN Without(Tail(s), key)
    ELSE <<Head(s)>> \o Without(Tail(s), key)

\* The brand new insertion that Insert and GetOrInsert share.
InsertNew(op, key, value) ==
    /\ Allocates(mlist, IF mlist.last # 0 THEN 1 ELSE 2)
    /\ LET out == AppendOf(mlist, key)
       IN /\ mlist' = out.list
          /\ inner' = [k \in DOMAIN inner \cup {key} |->
                          IF k = key THEN Entry(key, value, out.node) ELSE inner[k]]
    /\ keyOrder' = Append(keyOrder, key)
    /\ mRet' = MRet(op, key, value, FALSE)

MapInsert(key, value) ==
    /\ UNCHANGED notMapVars
    /\ IF key \in DOMAIN inner
       THEN /\ inner' = [inner EXCEPT ![key].value = value]
            /\ mRet' = MRet("Insert", key, inner[key].value, TRUE)
            /\ UNCHANGED <<mlist, keyOrder>>
       ELSE InsertNew("Insert", key, value)

MapGetOrInsert(key, value) ==
    /\ UNCHANGED notMapVars
    /\ IF key \in DOMAIN inner
       THEN /\ mRet' = MRet("GetOrInsert", key, inner[key].value, TRUE)
            /\ UNCHANGED <<inner, mlist, keyOrder>>
       ELSE InsertNew("GetOrInsert", key, value)

MapRemove(key) ==
    /\ UNCHANGED notMapVars
    /\ IF key \in DOMAIN inner
       THEN /\ mlist' = remove(mlist, inner[key].node)
            /\ inner' = [k \in DOMAIN inner \ {key} |-> inner[k]]
            /\ keyOrder' = Without(keyOrder, key)
            /\ mRet' = MRet("Remove", key, inner[key].value, TRUE)
       ELSE /\ mRet' = MRet("Remove", key, ZeroItem, FALSE)
            /\ UNCHANGED <<inner, mlist, keyOrder>>

NextMap ==
    \/ \E key \in MapKeys, value \in Items : MapInsert(key, value)
    \/ \E key \in MapKeys, value \in Items : MapGetOrInsert(key, value)
    \/ \E key \in MapKeys : MapRemove(key)

\* ------------------------------------------------------------ FIFO queue
\* What a queue call returned.
FRet(op, item, err) == [op |-> op, item |-> item, err |-> err]

\* New: the container is the nil slice.
InitFifo ==
    /\ fifo = <<>>
    /\ waiting = <<>>
    /\ fRet = FRet("none", ZeroItem, "none")
    /\ fTick = 0

FifoLength(q) == Len(q)

\* Pop as a function of the container, taking the item at the back.
FifoPoppedBack(q) ==
    IF Len(q) = 0
    THEN [item |-> ZeroItem, err |-> "pop from empty queue", container |-> q]
    ELSE [item |-> q[Len(q)], err |-> "none", container |-> SubSeq(q, 1, Len(q) - 1)]

\* Pop as a function of the container: the item, the error and the container
\* it leaves.
FifoPopped(q) ==
    IF Len(q) = 0
    THEN [item |-> ZeroItem, err |-> "pop from empty queue", container |-> q]
    ELSE [item |-> q[1], err |-> "none", container |-> SubSeq(q, 2, Len(q))]

FifoCall == fTick' = 1 - fTick /\ UNCHANGED notFifoVars

FifoPush(item) ==
    /\ FifoCall
    /\ FifoLength(fifo) < MaxFifo
    /\ fifo' = Append(fifo, item)
    /\ waiting' = Append(waiting, item)
    /\ fRet' = FRet("Push", item, "none")

FifoPop ==
    /\ FifoCall
    /\ LET out == FifoPopped(fifo)
       IN /\ fifo' = out.container
          /\ fRet' = FRet("Pop", out.item, out.err)
    /\ waiting' = IF waiting = <<>> THEN waiting ELSE Tail(waiting)

NextFifo ==
    \/ \E item \in Items : FifoPush(item)
    \/ FifoPop

\* ------------------------------------------------------------------- set
\* A set.Set is the set of the keys of its container. The functions below take
\* non-nil sets; a variadic parameter is a slice, which is nil when the call
\* passes no argument and may be empty without being nil.
SetItems == 1..MaxSetItem

SetContains(s, item) == item \in s

SetIsEmpty(s) == Cardinality(s) = 0

\* The index of the first set of the smallest size.
SmallestIndex(ss) ==
    CHOOSE i \in 1..Len(ss) :
        /\ \A j \in 1..Len(ss) : Cardinality(ss[i]) <= Cardinality(ss[j])
        /\ \A j \in 1..(i - 1) : Cardinality(ss[j]) > Cardinality(ss[i])

\* Intersection: the set it returns, or the panic of reading the container of
\* the nil smallest set when the slice is empty and not nil.
IntersectionOf(ss, isNil) ==
    IF isNil THEN [panic |-> FALSE, set |-> {}]
    ELSE IF Len(ss) = 1 THEN [panic |-> FALSE, set |-> ss[1]]
    ELSE IF \E k \in 1..Len(ss) : SetIsEmpty(ss[k]) THEN [panic |-> FALSE, set |-> {}]
    ELSE IF Len(ss) = 0 THEN [panic |-> TRUE, set |-> {}]
    ELSE LET n == Len(ss)
             smallest == ss[SmallestIndex(ss)]
             numContains(item) == Cardinality({k \in 1..n : SetContains(ss[k], item)})
         IN [panic |-> FALSE, set |-> {item \in smallest : numContains(item) = n}]

DifferenceOf(set, others, isNil) ==
    IF isNil THEN {}
    ELSE IF SetIsEmpty(set) THEN {}
    ELSE LET n == Len(others)
             numNotContains(item) ==
                 Cardinality({k \in 1..n : ~SetContains(others[k], item)})
         IN {item \in set : numNotContains(item) = n}

IsDisjointOf(ss) ==
    IF Len(ss) = 0 THEN FALSE
    ELSE IF Len(ss) = 1 THEN FALSE
    ELSE LET smallestIndex == SmallestIndex(ss)
         IN ~\E item \in ss[smallestIndex] :
                \E index \in 1..Len(ss) :
                    index # smallestIndex /\ SetContains(ss[index], item)

IsSubsetOf(a, b) ==
    IF SetIsEmpty(a) \/ SetIsEmpty(b) THEN FALSE
    ELSE \A item \in a : SetContains(b, item)

IsSupersetOf(a, b) == IsSubsetOf(b, a)

\* What a set function returned: for the call op(a, b) or op(a, sets...) or
\* op(sets...), the boolean or the set, or that it panicked.
SRet(op, a, b, ok, set, panic) ==
    [op |-> op, a |-> a, b |-> b, ok |-> ok, set |-> set, panic |-> panic]

NoSRet == SRet("none", {}, {}, FALSE, {}, FALSE)

\* No set function is called.
NoSets == sets = <<>> /\ setsNil = TRUE /\ setRet = NoSRet

\* The slices of up to MaxSets sets.
RECURSIVE SetSlices(_)
SetSlices(n) ==
    IF n = 0 THEN {<<>>}
    ELSE LET shorter == SetSlices(n - 1)
         IN shorter \cup {Append(ss, s) : ss \in {t \in shorter : Len(t) = n - 1},
                                          s \in SUBSET SetItems}

\* A caller holds a slice of sets to pass as the variadic parameter.
InitSets ==
    /\ sets \in SetSlices(MaxSets)
    /\ setsNil \in BOOLEAN
    /\ setsNil => sets = <<>>
    /\ setRet = NoSRet

SetCall == UNCHANGED <<sets, setsNil>> /\ UNCHANGED notSetVars

CallIntersection ==
    /\ SetCall
    /\ LET out == IntersectionOf(sets, setsNil)
       IN setRet' = SRet("Intersection", {}, {}, FALSE, out.set, out.panic)

CallIsDisjoint ==
    /\ SetCall
    /\ setRet' = SRet("IsDisjoint", {}, {}, IsDisjointOf(sets), {}, FALSE)

CallDifference(set) ==
    /\ SetCall
    /\ setRet' = SRet("Difference", set, {}, FALSE, DifferenceOf(set, sets, setsNil), FALSE)

CallIsSubset(a, b) ==
    /\ SetCall
    /\ setRet' = SRet("IsSubset", a, b, IsSubsetOf(a, b), {}, FALSE)

CallIsSuperset(a, b) ==
    /\ SetCall
    /\ setRet' = SRet("IsSuperset", a, b, IsSupersetOf(a, b), {}, FALSE)

NextSet ==
    \/ CallIntersection
    \/ CallIsDisjoint
    \/ \E set \in SUBSET SetItems : CallDifference(set)
    \/ \E a \in SUBSET SetItems, b \in SUBSET SetItems : CallIsSubset(a, b)
    \/ \E a \in SUBSET SetItems, b \in SUBSET SetItems : CallIsSuperset(a, b)

\* ----------------------------------------------------- sift-down by steps
\* init and Pop with every iteration of siftDown's loop as a step of its own.
\* hOp is where the code stands: at the head of init's loop ("init"), at the
\* head of siftDown's loop ("sift", called by op with index i and the length),
\* or between calls on a heapified queue ("heap").
HOp(at, op, i, length) == [pc |-> at, op |-> op, i |-> i, length |-> length]

\* No queue is being heapified.
NoHeapify == hq = <<>> /\ hi = -1 /\ hOp = HOp("none", "none", 0, 0)

\* From has copied its elements into the container and calls init.
InitHeapify ==
    /\ hq \in SeqUpTo(Elements, MaxHeap)
    /\ hi = GoDiv(Len(hq), 2) - 1
    /\ hOp = HOp("init", "From", 0, Len(hq))

\* One iteration of siftDown's loop at index i: whether it breaks, and the
\* container and the index it goes on with.
siftDownIter(c, i, length) ==
    LET leftChild == 2 * i + 1
        rightChild == leftChild + 1
        toSwap == IF rightChild < length /\ less(c, rightChild, leftChild)
                  THEN rightChild ELSE leftChild
    IN IF leftChild >= length \/ leftChild < 0
       THEN [break |-> TRUE, container |-> c, i |-> i]
       ELSE IF ~less(c, toSwap, i)
       THEN [break |-> TRUE, container |-> c, i |-> i]
       ELSE [break |-> FALSE, container |-> swap(c, i, toSwap), i |-> toSwap]

HeapCall == UNCHANGED notHpVars

\* The head of init's loop: call siftDown(i, n), or leave the loop.
HeapInitLoop ==
    /\ HeapCall
    /\ hOp.pc = "init"
    /\ IF hi >= 0
       THEN hOp' = HOp("sift", "From", hi, hOp.length)
       ELSE hOp' = HOp("heap", "From", 0, 0)
    /\ UNCHANGED <<hq, hi>>

\* One iteration of siftDown's loop; on break siftDown returns to its caller.
HeapSiftDown ==
    /\ HeapCall
    /\ hOp.pc = "sift"
    /\ LET out == siftDownIter(hq, hOp.i, hOp.length)
       IN /\ hq' = out.container
          /\ IF ~out.break
             THEN hOp' = [hOp EXCEPT !.i = out.i] /\ UNCHANGED hi
             ELSE IF hOp.op = "From"
             THEN hOp' = HOp("init", "From", 0, hOp.length) /\ hi' = hi - 1
             ELSE hOp' = HOp("heap", "Pop", 0, 0) /\ UNCHANGED hi

\* Pop of a queue that holds elements, up to its call of siftDown(0, n).
HeapPop ==
    /\ HeapCall
    /\ hOp.pc = "heap"
    /\ Len(hq) # 0
    /\ LET n == Len(hq) - 1
       IN /\ hq' = SubSeq(swap(hq, 0, n), 1, n)
          /\ hOp' = HOp("sift", "Pop", 0, n)
    /\ UNCHANGED hi

NextHeapify ==
    \/ HeapInitLoop
    \/ HeapSiftDown
    \/ HeapPop

\* ------------------------------------------------- pushes told apart
\* A priority queue of int whose caller pushes, as the item, the number of the
\* push, and keeps what Pop returns: the item, its priority and the number of
\* pushes made by then.
InitStamped ==
    /\ tq = <<>>
    /\ tn = 0
    /\ tpops = <<>>

StampedPush(priority) ==
    /\ UNCHANGED notStVars
    /\ tn < MaxPushes
    /\ tq' = Pushed(tq, tn + 1, priority)
    /\ tn' = tn + 1
    /\ UNCHANGED tpops

StampedPop ==
    /\ UNCHANGED notStVars
    /\ LET out == Popped(tq)
       IN /\ tq' = out.container
          /\ tpops' = IF out.err = "none"
                      THEN Append(tpops, [Item |-> out.item, Priority |-> out.priority,
                                          At |-> tn])
                      ELSE tpops
    /\ UNCHANGED tn

NextStamped ==
    \/ \E priority \in Priorities : StampedPush(priority)
    \/ StampedPop


\* --------------------------------------------------- slices and their arrays
\* A slice of Element is the array it points into (array n is backing[n], 0 for
\* the nil slice) and its length; its capacity is the length of the array.
Slice(array, len) == [array |-> array, len |-> len]

NilSlice == Slice(0, 0)

\* The elements of a slice.
SliceOf(mem, slice) ==
    IF slice.array = 0 THEN <<>> ELSE SubSeq(mem[slice.array], 1, slice.len)

\* The memory with the elements of a slice replaced by c, which is as long.
WithSlice(mem, slice, c) ==
    IF slice.array = 0 THEN mem
    ELSE [mem EXCEPT ![slice.array] =
             c \o SubSeq(mem[slice.array], slice.len + 1, Len(mem[slice.array]))]

\* No caller holds a slice.
NoAlias == backing = <<>> /\ callerSlice = NilSlice /\ owned = NilSlice

\* A caller holds a slice of up to MaxAlias elements and has made no queue.
InitAlias ==
    /\ \E es \in SeqUpTo(Elements, MaxAlias) :
          /\ backing = <<es>>
          /\ callerSlice = Slice(1, Len(es))
    /\ owned = NilSlice

\* From that keeps the caller's slice as its container and heapifies it.
FromSharing(mem, slice) ==
    [backing |-> WithSlice(mem, slice, init(SliceOf(mem, slice))), container |-> slice]

\* From on memory: it makes an array of the capacity of the slice, appends the
\* elements to it, which fit, and heapifies that array.
FromIn(mem, slice) ==
    LET fresh == Append(mem, <<>>)
        empty == Slice(Len(fresh), 0)
        copied == [fresh EXCEPT ![empty.array] = @ \o SliceOf(mem, slice)]
        filled == Slice(empty.array, slice.len)
    IN [backing |-> WithSlice(copied, filled, init(SliceOf(copied, filled))),
        container |-> filled]

\* Pop on memory: the element at the root goes to the end of the slice, which
\* is cut by one, and stays in the array.
PopIn(mem, slice) ==
    LET out == Popped(SliceOf(mem, slice))
        n == slice.len - 1
    IN IF out.err # "none" THEN [backing |-> mem, container |-> slice]
       ELSE [backing |-> WithSlice(mem, slice,
                             Append(out.container, Element(out.item, out.priority))),
             container |-> Slice(slice.array, n)]

\* What the caller writes into its slice.
Overwrites == {Element("y", MaxPriority), Element("x", 0)}

AliasFrom ==
    /\ UNCHANGED notAlVars
    /\ owned = NilSlice
    /\ LET out == FromIn(backing, callerSlice)
       IN backing' = out.backing /\ owned' = out.container
    /\ UNCHANGED callerSlice

\* The caller assigns to an element of its slice.
CallerWrite(k, e) ==
    /\ UNCHANGED notAlVars
    /\ k \in 1..callerSlice.len
    /\ backing' = [backing EXCEPT ![callerSlice.array][k] = e]
    /\ UNCHANGED <<callerSlice, owned>>

AliasPop ==
    /\ UNCHANGED notAlVars
    /\ owned # NilSlice
    /\ LET out == PopIn(backing, owned)
       IN backing' = out.backing /\ owned' = out.container
    /\ UNCHANGED callerSlice

NextAlias ==
    \/ AliasFrom
    \/ \E k \in 1..MaxAlias, e \in Overwrites : CallerWrite(k, e)
    \/ AliasPop

\* ---------------------------------------------------- Union and its result
\* The sets live in memory, setHeap[p] being the container of the set that the
\* pointer p points to; a call of Union is given a slice of pointers and
\* returns a pointer.

\* No Union is called.
NoUnion == setHeap = <<>> /\ unionIn = <<>> /\ unionOut = 0

\* A caller holds up to MaxSets sets and passes them all, in order.
InitUnion ==
    /\ setHeap \in SetSlices(MaxSets)
    /\ unionIn = [k \in 1..Len(setHeap) |-> k]
    /\ unionOut = 0

\* Union: the memory it leaves and the pointer it returns.
UnionOf(mem, ptrs) ==
    IF Len(ptrs) = 0 THEN [mem |-> Append(mem, {}), set |-> Len(mem) + 1]
    ELSE IF Len(ptrs) = 1 THEN [mem |-> mem, set |-> ptrs[1]]
    ELSE LET union == UNION {mem[ptrs[k]] : k \in 1..Len(ptrs)}
         IN [mem |-> Append(mem, union), set |-> Len(mem) + 1]

\* Insert on the set at p: the memory it leaves.
InsertIn(mem, p, item) ==
    IF item \in mem[p] THEN mem ELSE [mem EXCEPT ![p] = @ \cup {item}]

\* Remove on the set at p: the memory it leaves.
RemoveIn(mem, p, item) ==
    IF item \notin mem[p] THEN mem ELSE [mem EXCEPT ![p] = @ \ {item}]

CallUnion ==
    /\ unionOut = 0
    /\ LET out == UnionOf(setHeap, unionIn)
       IN setHeap' = out.mem /\ unionOut' = out.set
    /\ UNCHANGED unionIn
    /\ UNCHANGED notUnVars

\* The caller inserts into the set Union returned.
UnionInsert(item) ==
    /\ unionOut # 0
    /\ setHeap' = InsertIn(setHeap, unionOut, item)
    /\ UNCHANGED <<unionIn, unionOut>>
    /\ UNCHANGED notUnVars

\* The caller removes from the set Union returned.
UnionRemove(item) ==
    /\ unionOut # 0
    /\ setHeap' = RemoveIn(setHeap, unionOut, item)
    /\ UNCHANGED <<unionIn, unionOut>>
    /\ UNCHANGED notUnVars

NextUnion ==
    \/ CallUnion
    \/ \E item \in SetItems : UnionInsert(item)
    \/ \E item \in SetItems : UnionRemove(item)

\* ------------------------------------------- two calls of Push at once
\* Two goroutines call Push on one queue with no lock. The container is a slice
\* header (array, len, cap) in the queue and arrays in memory; each call goes by
\* its reads and writes of them: it reads the header, appends (in place when
\* the capacity allows, into a larger new array otherwise), stores the new
\* header, takes the length, and sifts up by compare, read and write steps.
\* The steps of the two calls interleave in every way. Each step is taken
\* whole: the runs of an unsynchronised program include these, and any further
\* outcome of the race (a header read half-written) only adds runs.

\* No Push calls run at once.
NoRace == rq = <<>> /\ rpc = <<>> /\ rloc = <<>> /\ rhist = <<>>

Goroutines == {1, 2}

\* The item each goroutine pushes.
RaceItem == <<"x", "y">>

\* A slice header: array 0 is nil.
RHdr(array, len, cap) == [array |-> array, len |-> len, cap |-> cap]

\* The zero value that fills the unused part of a new array.
ZeroElement == Element(ZeroItem, 0)

\* The capacity append gives the array it allocates when the slice is full.
GrowCap(cap) == IF cap = 0 THEN 1 ELSE 2 * cap

\* The capacity of the container after n pushes on a new queue.
RECURSIVE CapAfter(_)
CapAfter(n) ==
    IF n = 0 THEN 0
    ELSE IF n - 1 < CapAfter(n - 1) THEN CapAfter(n - 1)
    ELSE GrowCap(CapAfter(n - 1))

\* The container after pushing "x" with the priorities ps, in order, on a new
\* queue.
RECURSIVE PushedAll(_)
PushedAll(ps) ==
    IF Len(ps) = 0 THEN <<>>
    ELSE Pushed(PushedAll(SubSeq(ps, 1, Len(ps) - 1)), "x", ps[Len(ps)])

\* q.container as the header in q says.
RContainer(q) ==
    IF q.hdr.array = 0 THEN <<>> ELSE SubSeq(q.arrays[q.hdr.array], 1, q.hdr.len)

\* append(slice, e) on the slice with header hdr: the memory it leaves and the
\* header it returns.
AppendIn(arrays, hdr, e) ==
    IF hdr.len < hdr.cap
    THEN [arrays |-> [arrays EXCEPT ![hdr.array][hdr.len + 1] = e],
          hdr |-> RHdr(hdr.array, hdr.len + 1, hdr.cap)]
    ELSE LET cap == GrowCap(hdr.cap)
             fresh == [k \in 1..cap |->
                          IF k <= hdr.len THEN arrays[hdr.array][k]
                          ELSE IF k = hdr.len + 1 THEN e
                          ELSE ZeroElement]
         IN [arrays |-> Append(arrays, fresh),
             hdr |-> RHdr(Len(arrays) + 1, hdr.len + 1, cap)]

\* The loop of siftUp breaks at once.
siftUpNever(c, index, parent) == TRUE

\* The condition on which the loop of siftUp breaks.
siftUpStops(c, index, parent) ==
    parent = index \/ At(c, index).Priority < At(c, parent).Priority

\* A queue made by New and up to MaxRace pushes, and two goroutines about to
\* push one element each.
InitRace ==
    \E ps \in SeqUpTo(Priorities, MaxRace), p1 \in Priorities, p2 \in Priorities :
        LET c == PushedAll(ps)
            cap == CapAfter(Len(c))
            elem == <<Element(RaceItem[1], p1), Element(RaceItem[2], p2)>>
        IN /\ rq = [arrays |-> IF cap = 0 THEN <<>>
                               ELSE <<[k \in 1..cap |-> IF k <= Len(c) THEN c[k]
                                                        ELSE ZeroElement]>>,
                    hdr |-> RHdr(IF cap = 0 THEN 0 ELSE 1, Len(c), cap)]
           /\ rpc = [g \in Goroutines |-> "start"]
           /\ rloc = [g \in Goroutines |->
                         [elem |-> elem[g], old |-> RHdr(0, 0, 0), new |-> RHdr(0, 0, 0),
                          index |-> 0, parent |-> 0,
                          a |-> ZeroElement, b |-> ZeroElement]]
           /\ rhist = [initial |-> c, overlapped |-> FALSE]

\* A panic in one goroutine ends the program.
RaceRuns == \A g \in Goroutines : rpc[g] # "panic"

\* append reads the header q.container.
RaceRead(g) ==
    /\ RaceRuns /\ rpc[g] = "start"
    /\ rloc' = [rloc EXCEPT ![g].old = rq.hdr]
    /\ rpc' = [rpc EXCEPT ![g] = "append"]
    /\ rhist' = [rhist EXCEPT !.overlapped =
                    @ \/ \E h \in Goroutines \ {g} : rpc[h] \notin {"start", "done"}]
    /\ UNCHANGED rq
    /\ UNCHANGED notRcVars

\* append writes the element after the slice it read, or into a new array.
RaceAppend(g) ==
    /\ RaceRuns /\ rpc[g] = "append"
    /\ LET out == AppendIn(rq.arrays, rloc[g].old, rloc[g].elem)
       IN /\ rq' = [rq EXCEPT !.arrays = out.arrays]
          /\ rloc' = [rloc EXCEPT ![g].new = out.hdr]
    /\ rpc' = [rpc EXCEPT ![g] = "store"]
    /\ UNCHANGED rhist
    /\ UNCHANGED notRcVars

\* The header append returned is stored in q.container.
RaceStore(g) ==
    /\ RaceRuns /\ rpc[g] = "store"
    /\ rq' = [rq EXCEPT !.hdr = rloc[g].new]
    /\ rpc' = [rpc EXCEPT ![g] = "len"]
    /\ UNCHANGED <<rloc, rhist>>
    /\ UNCHANGED notRcVars

\* len(q.container) - 1 is passed to siftUp: the length is read from the queue
\* again, or kept from the header just stored.
RaceLen(g) ==
    /\ RaceRuns /\ rpc[g] = "len"
    /\ \E n \in {rq.hdr.len, rloc[g].new.len} :
          rloc' = [rloc EXCEPT ![g].index = n - 1]
    /\ rpc' = [rpc EXCEPT ![g] = "sift"]
    /\ UNCHANGED <<rq, rhist>>
    /\ UNCHANGED notRcVars

\* One test of the loop of siftUp: it breaks, or goes on to swap, or an index
\* is out of range.
RaceSiftUp(g) ==
    /\ RaceRuns /\ rpc[g] = "sift"
    /\ LET index == rloc[g].index
           parent == GoDiv(index - 1, 2)
           c == RContainer(rq)
       IN /\ rpc' = [rpc EXCEPT ![g] =
                        IF parent # index /\ index >= Len(c) THEN "panic"
                        ELSE IF siftUpStops(c, index, parent) THEN "done"
                        ELSE "swap"]
          /\ rloc' = [rloc EXCEPT ![g].parent = parent]
    /\ UNCHANGED <<rq, rhist>>
    /\ UNCHANGED notRcVars

\* swap reads the two elements.
RaceSwapRead(g) ==
    /\ RaceRuns /\ rpc[g] = "swap"
    /\ LET c == RContainer(rq)
       IN IF rloc[g].index >= Len(c)
          THEN rpc' = [rpc EXCEPT ![g] = "panic"] /\ UNCHANGED rloc
          ELSE /\ rloc' = [rloc EXCEPT ![g].a = At(c, rloc[g].index),
                                       ![g].b = At(c, rloc[g].parent)]
               /\ rpc' = [rpc EXCEPT ![g] = "write"]
    /\ UNCHANGED <<rq, rhist>>
    /\ UNCHANGED notRcVars

\* swap writes the two elements, each where the other was, and the loop goes
\* on from the parent.
RaceSwapWrite(g) ==
    /\ RaceRuns /\ rpc[g] = "write"
    /\ IF rloc[g].index >= rq.hdr.len
       THEN rpc' = [rpc EXCEPT ![g] = "panic"] /\ UNCHANGED <<rq, rloc>>
       ELSE /\ rq' = [rq EXCEPT !.arrays[rq.hdr.array] =
                         [@ EXCEPT ![rloc[g].parent + 1] = rloc[g].a,
                                   ![rloc[g].index + 1] = rloc[g].b]]
            /\ rloc' = [rloc EXCEPT ![g].index = rloc[g].parent]
            /\ rpc' = [rpc EXCEPT ![g] = "sift"]
    /\ UNCHANGED rhist
    /\ UNCHANGED notRcVars

NextRace ==
    \E g \in Goroutines :
        \/ RaceRead(g)
        \/ RaceAppend(g)
        \/ RaceStore(g)
        \/ RaceLen(g)
        \/ RaceSiftUp(g)
        \/ RaceSwapRead(g)
        \/ RaceSwapWrite(g)

\* ------------------------------------------------------ Push by steps
\* Push on the queue that is heapified and popped by steps, by the iterations
\* of siftUp's loop.

\* Push up to its call of siftUp(len(q.container) - 1).
HeapPush(e) ==
    /\ HeapCall
    /\ hOp.pc = "heap"
    /\ Len(hq) < MaxHeap
    /\ hq' = Append(hq, e)
    /\ hOp' = HOp("up", "Push", Len(hq), Len(hq) + 1)
    /\ UNCHANGED hi

\* One iteration of siftUp's loop; on break Push returns.
HeapSiftUp ==
    /\ HeapCall
    /\ hOp.pc = "up"
    /\ LET index == hOp.i
           parent == GoDiv(index - 1, 2)
       IN IF siftUpStops(hq, index, parent)
          THEN hOp' = HOp("heap", "Push", 0, 0) /\ UNCHANGED hq
          ELSE hq' = swap(hq, parent, index) /\ hOp' = [hOp EXCEPT !.i = parent]
    /\ UNCHANGED hi

NextSteps ==
    \/ HeapInitLoop
    \/ HeapSiftDown
    \/ HeapPop
    \/ \E e \in Elements : HeapPush(e)
    \/ HeapSiftUp

\* Nothing of the last sections is in use.
InitLast == NoAlias /\ NoUnion /\ NoRace

\* ------------------------------------------------------- specifications
InitDag ==
    /\ vertices = <<>>
    /\ edges = 0
    /\ pc = "idle"
    /\ zeroInDegreeQueue = QueueNew
    /\ result = <<>>
    /\ ret = NoRet
    /\ calls = 0
    /\ sortCalls = 0
    /\ prevSort = FALSE
    /\ firstItem = <<>>

NextDag ==
    \/ \E id \in Ids, item \in Items : AddVertex(id, item)
    \/ \E id \in Ids : GetVertex(id)
    \/ \E id \in Ids : ContainsVertex(id)
    \/ \E from \in Ids, to \in Ids : AddEdge(from, to)
    \/ SortCall
    \/ SortLoop
    \/ SortReturn

\* No container of the later sections is in use.
InitLater == InitList /\ InitMap /\ InitFifo /\ NoSets /\ NoHeapify /\ InitStamped /\ InitLast

Init == InitDag /\ InitPriority /\ NoBuild /\ InitCounter /\ InitLater

\* The graph, with the priority queue left alone.
SpecDag == Init /\ [][NextDag]_vars

\* Sort's loop is ordinary sequential code: it keeps running while it can.
SpecDagFair == SpecDag /\ WF_vars(SortLoop) /\ WF_vars(SortReturn)

\* The priority queue, with the graph left alone.
SpecPriority == Init /\ [][NextPriority]_vars

\* The graph of the sort test: ids one..five (here 1..5) holding the items 1..5,
\* with the edges one -> two and three -> four, AddEdge("three", "four") being
\* the last call that returned. The calls that built it are not counted.
HappyPathGraph ==
    [id \in 1..5 |->
        [parents |-> IF id = 2 THEN {1} ELSE IF id = 4 THEN {3} ELSE {},
         children |-> IF id = 1 THEN {2} ELSE IF id = 3 THEN {4} ELSE {},
         item |-> id]]

InitHappyPath ==
    /\ vertices = HappyPathGraph
    /\ edges = 2
    /\ pc = "idle"
    /\ zeroInDegreeQueue = QueueNew
    /\ result = <<>>
    /\ ret = Ret("AddEdge", 3, 4, "none", ZeroItem, TRUE, <<>>, 0, FALSE)
    /\ calls = 0
    /\ sortCalls = 0
    /\ prevSort = FALSE
    /\ firstItem = [id \in 1..5 |-> id]
    /\ InitPriority /\ NoBuild /\ InitCounter /\ InitLater

NextSort ==
    \/ SortCall
    \/ SortLoop
    \/ SortReturn

\* Sort called on the graph of the sort test.
SpecHappyPath == InitHappyPath /\ [][NextSort]_vars

\* The caller that builds three queues, with all else left alone.
InitBuilder == InitDag /\ InitPriority /\ InitBuild /\ InitCounter /\ InitLater

SpecBuild == InitBuilder /\ [][NextBuild]_vars

\* The counter, with all else left alone.
SpecCounter == Init /\ [][NextCounter]_vars

\* The list, with all else left alone.
SpecList == Init /\ [][NextList]_vars

\* The ordered map, with all else left alone.
SpecMap == Init /\ [][NextMap]_vars

\* The FIFO queue, with all else left alone.
SpecFifo == Init /\ [][NextFifo]_vars

\* The set functions called on every slice of sets, with all else left alone.
InitSetCaller ==
    /\ InitDag /\ InitPriority /\ NoBuild /\ InitCounter
    /\ InitList /\ InitMap /\ InitFifo /\ InitSets /\ NoHeapify /\ InitStamped
    /\ InitLast

SpecSet == InitSetCaller /\ [][NextSet]_vars

\* From on every container of up to MaxHeap elements and the Pops after it, by
\* the iterations of siftDown, with all else left alone.
InitHeapifier ==
    /\ InitDag /\ InitPriority /\ NoBuild /\ InitCounter
    /\ InitList /\ InitMap /\ InitFifo /\ NoSets /\ InitHeapify /\ InitStamped
    /\ InitLast

SpecHeapify == InitHeapifier /\ [][NextHeapify]_vars

\* The priority queue with its pushes numbered, with all else left alone.
SpecStamped == Init /\ [][NextStamped]_vars

\* A caller of From that goes on writing into its slice, with all else left
\* alone.
InitAliasing ==
    /\ InitDag /\ InitPriority /\ NoBuild /\ InitCounter
    /\ InitList /\ InitMap /\ InitFifo /\ NoSets /\ NoHeapify /\ InitStamped
    /\ InitAlias /\ NoUnion /\ NoRace

SpecAlias == InitAliasing /\ [][NextAlias]_vars

\* A caller of Union that goes on changing the set it was returned, with all
\* else left alone.
InitUnionCaller ==
    /\ InitDag /\ InitPriority /\ NoBuild /\ InitCounter
    /\ InitList /\ InitMap /\ InitFifo /\ NoSets /\ NoHeapify /\ InitStamped
    /\ NoAlias /\ InitUnion /\ NoRace

SpecUnion == InitUnionCaller /\ [][NextUnion]_vars

\* Two goroutines that push on one queue with no lock, with all else left
\* alone.
InitRacing ==
    /\ InitDag /\ InitPriority /\ NoBuild /\ InitCounter
    /\ InitList /\ InitMap /\ InitFifo /\ NoSets /\ NoHeapify /\ InitStamped
    /\ NoAlias /\ NoUnion /\ InitRace

SpecRace == InitRacing /\ [][NextRace]_vars

\* From on every container of up to MaxHeap elements and the Pushes and Pops
\* after it, by the iterations of siftUp and siftDown, with all else left alone.
InitSteps == InitHeapifier

SpecSteps == InitSteps /\ [][NextSteps]_vars

\* --------------------------------------------------------- graph notions
\* The vertices reachable from those in `seen` along children links.
RECURSIVE Closure(_, _)
Closure(vs, seen) ==
    LET more == seen \cup UNION {vs[u].children : u \in seen}
    IN IF more = seen THEN seen ELSE Closure(vs, more)

Descendants(vs, u) == Closure(vs, vs[u].children)

HasCycle(vs) == \E u \in DOMAIN vs : u \in Descendants(vs, u)

\* res lists the items of all vertices, each vertex once, parents before children.
IsTopologicalOrder(vs, res) ==
    \E perm \in Orders(DOMAIN vs) :
        /\ res = [i \in 1..Len(perm) |-> vs[perm[i]].item]
        /\ \A i, j \in 1..Len(perm) :
              perm[j] \in vs[perm[i]].children => i < j

\* The graph on vertices 1..n with the edges es, each vertex holding its id.
GraphOf(n, es) ==
    [id \in 1..n |->
        [parents |-> {u \in 1..n : <<u, id>> \in es},
         children |-> {v \in 1..n : <<id, v>> \in es},
         item |-> id]]

\* The graphs without a cycle that AddVertex and AddEdge build on up to MaxIds
\* vertices, each edge added once, before any Sort.
InitAcyclic ==
    /\ \E n \in 0..MaxIds :
          \E es \in SUBSET {e \in (1..n) \X (1..n) : e[1] # e[2]} :
             /\ vertices = GraphOf(n, es)
             /\ edges = Cardinality(es)
             /\ firstItem = [id \in 1..n |-> id]
    /\ ~HasCycle(vertices)
    /\ pc = "idle"
    /\ zeroInDegreeQueue = QueueNew
    /\ result = <<>>
    /\ ret = NoRet
    /\ calls = 0
    /\ sortCalls = 0
    /\ prevSort = FALSE
    /\ InitPriority /\ NoBuild /\ InitCounter /\ InitLater

\* Sort called on a graph that was never sorted.
FirstSortCall == sortCalls = 0 /\ SortCall

NextFirstSort ==
    \/ FirstSortCall
    \/ SortLoop
    \/ SortReturn

\* The first Sort of every such graph.
SpecAcyclic == InitAcyclic /\ [][NextFirstSort]_vars

\* The latest call to return is Sort, and it was the first Sort on this graph.
FirstSortReturned == pc = "idle" /\ ret.op = "Sort" /\ sortCalls = 1

\* The latest call is the second Sort, made right after the first one.
SecondSort == sortCalls = 2 /\ prevSort

\* This step is a call of Sort.
SortIsCalled == sortCalls' = sortCalls + 1

\* This step is a whole call of op: it is made and it returns.
Returns(op) == calls' = calls + 1 /\ pc' = "idle" /\ ret'.op = op

\* ------------------------------------------------------------------ claims
\* C1: on an acyclic graph that was never sorted, Sort returns no error and a
\* sequence holding every vertex's item once, each edge's parent before its child.
C1_SortOfAcyclicIsTopological ==
    (FirstSortReturned /\ ~HasCycle(vertices)) =>
        (ret.err = "none" /\ IsTopologicalOrder(vertices, ret.result))

\* C2: on a never-sorted graph with a directed cycle Sort returns the cycle
\* error, and whatever it returns without error is a topological order.
C2_CycleIsReported ==
    FirstSortReturned =>
        /\ HasCycle(vertices) => ret.err = "cycle"
        /\ ret.err = "none" => IsTopologicalOrder(vertices, ret.result)

\* C5: every call of Sort returns, in every state the graph can be in.
C5_SortTerminates == (pc = "loop") ~> (pc = "idle")

\* C6: a second Sort right after the first, on a graph built acyclic, returns,
\* and returns no error.
C6_SecondSortReturnsNoError ==
    /\ [](  (SecondSort /\ pc = "idle" /\ ret.op = "Sort" /\ ~HasCycle(vertices))
         => ret.err = "none")
    /\ (SecondSort /\ pc = "loop" /\ ~HasCycle(vertices)) ~> (pc = "idle")

\* C7: AddEdge(v, v) on an existing vertex succeeds, and every Sort of a graph
\* holding a self-loop returns the cycle error.
C7_SelfLoopIsReported ==
    /\ (ret.op = "AddEdge" /\ ret.id = ret.to /\ ret.id \in DOMAIN vertices)
          => ret.err = "none"
    /\ (pc = "idle" /\ ret.op = "Sort"
          /\ \E v \in DOMAIN vertices : v \in vertices[v].children)
          => ret.err = "cycle"

\* C8: Sort returns the cycle error exactly when there is a vertex and no
\* vertex has in-degree zero; on a graph with no vertices it reports no cycle.
C8_CycleErrorIffNoZeroInDegree ==
    [][SortIsCalled =>
          ((pc' = "idle" /\ ret'.op = "Sort" /\ ret'.err = "cycle")
             <=> (DOMAIN vertices # {} /\ ZeroInDegree(vertices) = {}))]_vars

\* C9: a Sort that returns the cycle error returns a nil slice and leaves the
\* graph as it was, and a Sort called right after it returns the same again.
C9_CycleErrorChangesNothing ==
    [][SortIsCalled =>
          /\ (pc' = "idle" /\ ret'.op = "Sort" /\ ret'.err = "cycle")
                => (ret'.isNil /\ ret'.result = <<>>
                      /\ vertices' = vertices /\ edges' = edges)
          /\ (pc = "idle" /\ ret.op = "Sort" /\ ret.err = "cycle")
                => (pc' = "idle" /\ ret' = ret)]_vars

\* C9 witness: Sort has reported a cycle twice in a row on a graph with vertices.
C9_Witness ==
    /\ pc = "idle" /\ ret.op = "Sort" /\ ret.err = "cycle"
    /\ prevSort /\ sortCalls >= 2
    /\ DOMAIN vertices # {}

\* C10: AddVertex fails exactly when the id is present; a failure leaves Order
\* and the item GetVertex returns (the first one given) as they were; a success
\* adds a vertex with no parents and no children.
C10_AddVertexFailsIffPresent ==
    [][Returns("AddVertex") =>
          LET id == ret'.id
          IN /\ (ret'.err # "none") <=> (id \in DOMAIN vertices)
             /\ (ret'.err # "none") =>
                   /\ Order(vertices') = Order(vertices)
                   /\ GetVertexOf(vertices', id) =
                          [item |-> firstItem[id], err |-> "none"]
             /\ (ret'.err = "none") =>
                   /\ id \in DOMAIN vertices'
                   /\ vertices'[id].parents = {}
                   /\ vertices'[id].children = {}
                   /\ Order(vertices') = Order(vertices) + 1]_vars

\* C10 witness: AddVertex was refused for an id whose vertex holds another item.
C10_Witness ==
    /\ ret.op = "AddVertex" /\ ret.err = "exists"
    /\ ret.item # firstItem[ret.id]
    /\ edges > 0

\* The number of times element e occurs in container c.
Count(c, e) == Cardinality({k \in 1..Len(c) : c[k] = e})

\* Every element but the root has a parent of at least its priority.
IsMaxHeap(c) ==
    \A i \in 1..(Len(c) - 1) :
        At(c, GoDiv(i - 1, 2)).Priority >= At(c, i).Priority

\* This step is a call of op on the priority queue.
PriorityCalls(op) == pqTick' # pqTick /\ pqRet'.op = op

\* C3: after any sequence of New/From/FromFunc/Push/Pop the backing array is a
\* max-heap: the priority at index (i-1)/2 is at least the priority at index i.
C3_HeapInvariant == IsMaxHeap(container)

\* C3 witness: a Pop has left a heap of three or more elements whose priorities
\* are not all equal.
C3_Witness ==
    /\ pqRet.op = "Pop" /\ pqRet.err = "none"
    /\ Len(container) >= 3
    /\ \E i, j \in 1..Len(container) : container[i].Priority # container[j].Priority

\* C4: Pop on a non-empty queue returns, with no error, the item of an element
\* of maximal priority, and removes that one element and nothing else.
C4_PopReturnsMaximum ==
    [][(PriorityCalls("Pop") /\ Len(container) > 0) =>
          /\ pqRet'.err = "none"
          /\ \E k \in 1..Len(container) :
                /\ container[k].Item = pqRet'.item
                /\ \A j \in 1..Len(container) :
                      container[j].Priority <= container[k].Priority
                /\ \A e \in Elements :
                      Count(container', e) =
                          Count(container, e) - (IF e = container[k] THEN 1 ELSE 0)]_vars

\* C4 witness: a Pop has returned from a queue that held other elements, some
\* of lower priority than the one returned.
C4_Witness ==
    /\ pqRet.op = "Pop" /\ pqRet.err = "none"
    /\ Len(container) >= 2
    /\ \E k \in 1..Len(container) : container[k].Priority < pqRet.priority

\* C11: AddEdge(from, to) returns the parent-not-found error when `from` is
\* absent (whether or not `to` is), the child-not-found error when `from` is
\* present and `to` is absent, and no error otherwise, cycle or not; a failed
\* AddEdge leaves Size and every vertex's parents and children as they were.
C11_AddEdgeErrors ==
    [][Returns("AddEdge") =>
          LET from == ret'.id
              to == ret'.to
          IN /\ ret'.err = (IF from \notin DOMAIN vertices THEN "parent"
                            ELSE IF to \notin DOMAIN vertices THEN "child"
                            ELSE "none")
             /\ (ret'.err # "none") =>
                   /\ GraphSize(edges') = GraphSize(edges)
                   /\ vertices' = vertices]_vars

\* C11 witness: AddEdge between two absent ids was refused for its parent, on
\* a graph that holds an edge closing a cycle.
C11_Witness ==
    /\ ret.op = "AddEdge" /\ ret.err = "parent"
    /\ ret.id \notin DOMAIN vertices /\ ret.to \notin DOMAIN vertices
    /\ edges >= 2 /\ HasCycle(vertices)

\* This step is a call of op that returns no error.
Succeeds(op) == Returns(op) /\ ret'.err = "none"

C13_AdjacencyMirrors ==
    \A u, v \in DOMAIN vertices :
        (u \in vertices[v].parents) <=> (v \in vertices[u].children)

\* C14: in every state, an id that some AddVertex(id, payload) succeeded for is
\* contained and GetVertex gives that payload with no error, whatever AddVertex,
\* AddEdge and Sort calls came after; an id never added is not contained and
\* GetVertex gives the not-found error; and that is what the two calls return.
C14_VerticesStay ==
    /\ \A id \in Ids :
          IF id \in DOMAIN firstItem
          THEN /\ ContainsVertexOf(vertices, id)
               /\ GetVertexOf(vertices, id) = [item |-> firstItem[id], err |-> "none"]
          ELSE /\ ~ContainsVertexOf(vertices, id)
               /\ GetVertexOf(vertices, id).err = "notfound"
    /\ (ret.op = "GetVertex") =>
          IF ret.id \in DOMAIN firstItem
          THEN ret.err = "none" /\ ret.item = firstItem[ret.id]
          ELSE ret.err = "notfound"
    /\ (ret.op = "ContainsVertex") => (ret.ok <=> ret.id \in DOMAIN firstItem)

\* C14 witness: after a Sort, GetVertex has returned the payload of a vertex
\* that has a child.
C14_Witness ==
    /\ ret.op = "GetVertex" /\ ret.err = "none"
    /\ ret.item = "y"
    /\ sortCalls >= 1
    /\ vertices[ret.id].children # {}

\* C16: Pop on an empty queue returns an error and the zero item and leaves the
\* queue empty; a Pop right after such a Pop returns the same again.
C16_PopFromEmpty ==
    [][PriorityCalls("Pop") =>
          /\ PriorityEmpty(container) =>
                /\ pqRet'.err = "empty"
                /\ pqRet'.item = ZeroItem
                /\ container' = container
                /\ PriorityEmpty(container')
          /\ (pqRet.op = "Pop" /\ pqRet.err = "empty") => pqRet' = pqRet]_vars

\* C16 witness: Pop has returned the error and the zero item on an empty queue.
C16_Witness ==
    /\ pqRet.op = "Pop" /\ pqRet.err = "empty" /\ pqRet.item = ZeroItem
    /\ PriorityEmpty(container)

\* The number of elements in bag b.
RECURSIVE BagSum(_, _)
BagSum(b, S) ==
    IF S = {} THEN 0
    ELSE LET e == CHOOSE x \in S : TRUE IN b[e] + BagSum(b, S \ {e})

\* C18: in every state the backing array holds, element for element, what
\* From, FromFunc and Push put in less what successful Pops returned; Size
\* returns the number of those elements and Empty returns whether it is 0; and
\* a call of Size or Empty changes nothing in the queue.
C18_ContainerHoldsInsertedLessPopped ==
    /\ [](/\ \A e \in Elements : Count(container, e) = held[e]
          /\ PrioritySize(container) = BagSum(held, Elements)
          /\ PriorityEmpty(container) <=> (PrioritySize(container) = 0)
          /\ (pqRet.op = "Size") => pqRet.num = BagSum(held, Elements)
          /\ (pqRet.op = "Empty") => (pqRet.ok <=> BagSum(held, Elements) = 0))
    /\ [][(PriorityCalls("Size") \/ PriorityCalls("Empty")) =>
             container' = container]_vars

\* C18 witness: Size has returned 3 on a queue that holds one element twice
\* and another of a different priority.
C18_Witness ==
    /\ pqRet.op = "Size" /\ pqRet.num = 3
    /\ \E e \in Elements : held[e] = 2
    /\ \E i, j \in 1..Len(container) : container[i].Priority # container[j].Priority

\* The caller has built its three queues and pushed every item.
AllBuilt == made = {"From", "FromFunc"} /\ pending = {}

\* The priorities of a sequence of elements.
PrioritiesOf(elems) == [k \in 1..Len(elems) |-> elems[k].Priority]

\* The given items have pairwise distinct priorities.
DistinctPriorities ==
    \A i, j \in 1..Len(given) :
        i # j => priorityOf[given[i]] # priorityOf[given[j]]

\* C15: when the elements have pairwise distinct priorities, then in whatever
\* order they were pushed into the new queue, popping it until empty gives every
\* element once in strictly descending priority: one sequence for all push orders.
C15_PopsDescend ==
    (AllBuilt /\ DistinctPriorities) =>
        LET pops == PopAll(pushQ)
        IN /\ Len(pops) = Len(given)
           /\ {pops[k] : k \in 1..Len(pops)} =
                 {GivenElements[k] : k \in 1..Len(given)}
           /\ \A i, j \in 1..Len(pops) :
                 i < j => pops[i].Priority > pops[j].Priority

\* C15 witness: four elements of distinct priorities are pushed, and the
\* backing array holds them in another order than the pops give.
C15_Witness ==
    /\ AllBuilt /\ DistinctPriorities
    /\ Len(given) >= 4
    /\ pushQ # PopAll(pushQ)

\* C17: built from the same items and priorities, the queue made by From, the
\* one made by FromFunc and the one made by New and Push all have the same Size,
\* and popping each until empty gives the same sequence of priorities.
C17_ThreeBuildsAgree ==
    AllBuilt =>
        /\ PrioritySize(fromQ) = Len(given)
        /\ PrioritySize(funcQ) = Len(given)
        /\ PrioritySize(pushQ) = Len(given)
        /\ PrioritiesOf(PopAll(funcQ)) = PrioritiesOf(PopAll(fromQ))
        /\ PrioritiesOf(PopAll(pushQ)) = PrioritiesOf(PopAll(fromQ))

\* C17 witness: the three queues are built from four items, two of them of one
\* priority, and the array built by From is not the array built by Push.
C17_Witness ==
    /\ AllBuilt
    /\ Len(given) >= 4
    /\ ~DistinctPriorities
    /\ fromQ # pushQ
    /\ funcQ = fromQ

\* C19: when the counter holds at least n distinct items, MostCommon(n) returns
\* n entries, each an item of the counter with its current count, counts never
\* increasing along the result, and every item of the counter that is not in the
\* result has a count no greater than the last (smallest) count returned.
C19_MostCommon ==
    (ctrRet.op = "MostCommon" /\ CounterSize(counts) >= ctrRet.n) =>
        LET res == ctrRet.result
            returned == {res[k].Item : k \in 1..Len(res)}
        IN /\ Len(res) = ctrRet.n
           /\ \A k \in 1..Len(res) :
                 /\ res[k].Item \in DOMAIN counts
                 /\ res[k].Value = counts[res[k].Item]
           /\ \A i, j \in 1..Len(res) : i < j => res[i].Value >= res[j].Value
           /\ \A item \in DOMAIN counts \ returned :
                 \A k \in 1..Len(res) : counts[item] <= res[k].Value

\* C19 witness: MostCommon(2) has returned on a counter of three items with
\* three different counts.
C19_Witness ==
    /\ ctrRet.op = "MostCommon" /\ ctrRet.n = 2
    /\ CounterSize(counts) = 3
    /\ Cardinality({counts[i] : i \in DOMAIN counts}) = 3

ListCalls(op) == lTick' # lTick /\ lRet'.op = op

\* s without its k-th entry.
WithoutAt(s, k) == SubSeq(s, 1, k - 1) \o SubSeq(s, k + 1, Len(s))

\* C21: Append returns the node it put in the list: right after an Append, on an
\* empty list or not, Last returns that node; and Remove of a node that Append
\* returned takes exactly the item of that node out of the list.
C21_AppendReturnsItsNode ==
    [][/\ ListCalls("Append") =>
             LastOf(list') = [node |-> lRet'.node, err |-> "none"]
       /\ (ListCalls("Remove") /\ lRet'.node \in fromAppend) =>
             \E k \in 1..Len(NodesOf(list)) :
                /\ NodesOf(list)[k] = lRet'.node
                /\ ItemsOf(list') = WithoutAt(ItemsOf(list), k)]_vars

\* C22: Keys yields exactly the keys present, each once, in the order of their
\* insertion, and Size is the number of keys present, after any Insert,
\* GetOrInsert and Remove calls.
C22_KeysAndSize ==
    /\ KeysOf(mlist) = keyOrder
    /\ {keyOrder[i] : i \in 1..Len(keyOrder)} = {k \in MapKeys : MapContains(k)}
    /\ Len(keyOrder) = Cardinality({k \in MapKeys : MapContains(k)})
    /\ MapSize = Cardinality({k \in MapKeys : MapContains(k)})

\* This step is a call of op on the FIFO queue.
FifoCalls(op) == fTick' # fTick /\ fRet'.op = op

\* C23: each successful Pop returns the oldest item pushed and not yet popped;
\* Pop on an empty queue returns an error and leaves the queue empty.
C23_FirstInFirstOut ==
    [][FifoCalls("Pop") =>
          IF waiting = <<>>
          THEN /\ fRet'.err # "none"
               /\ fRet'.item = ZeroItem
               /\ FifoLength(fifo') = 0
          ELSE /\ fRet'.err = "none"
               /\ fRet'.item = Head(waiting)
               /\ FifoLength(fifo') = Len(waiting) - 1]_vars

\* C23 witness: a Pop has returned the item y without error while x and then y,
\* pushed after it, still wait.
C23_Witness ==
    /\ fRet.op = "Pop"
    /\ fRet.err = "none"
    /\ fRet.item = "y"
    /\ waiting = <<"x", "y">>

\* C24: for any number of input sets, IsDisjoint returns true exactly when
\* Intersection of the same sets is the empty set.
C24_DisjointIffEmptyIntersection ==
    setRet.op = "IsDisjoint" =>
        (setRet.ok <=> IntersectionOf(sets, setsNil) = [panic |-> FALSE, set |-> {}])

\* C25: IsSubset(a, b) is true exactly when b contains every item of a, also
\* when a is empty, and IsSuperset(a, b) equals IsSubset(b, a).
C25_SubsetIsContainment ==
    /\ setRet.op = "IsSubset" => (setRet.ok <=> setRet.a \subseteq setRet.b)
    /\ setRet.op = "IsSuperset" => (setRet.ok <=> IsSubsetOf(setRet.b, setRet.a))

\* C26: Difference(set, others...) returns exactly the items of set that none
\* of the others contains, for any number of others, zero included.
C26_DifferenceIsSetMinusOthers ==
    setRet.op = "Difference" =>
        setRet.set = {item \in setRet.a : \A k \in 1..Len(sets) : item \notin sets[k]}

\* C27: a second Sort made right after the first one, on a graph without a
\* cycle, returns a sequence of Order() entries that holds the payload of each
\* vertex exactly once.
C27_SecondSortIsAnOrdering ==
    (SecondSort /\ pc = "idle" /\ ret.op = "Sort" /\ ~HasCycle(vertices)) =>
        /\ Len(ret.result) = Order(vertices)
        /\ \E perm \in Orders(DOMAIN vertices) :
              ret.result = [k \in 1..Len(perm) |-> vertices[perm[k]].item]

\* The index at which an element of the given priority, put at index, comes to
\* rest when it passes every ancestor whose priority is not greater than its own.
RECURSIVE RestsAt(_, _, _)
RestsAt(c, index, priority) ==
    IF index = 0 \/ At(c, GoDiv(index - 1, 2)).Priority > priority
    THEN index
    ELSE RestsAt(c, GoDiv(index - 1, 2), priority)

\* C28 as claimed: Push moves the new element above its parent only when its
\* priority is strictly greater than the parent's; pushed with a priority equal
\* to (or lower than) its parent's it stays below it, where it was appended.
C28_EqualStaysBelow ==
    [][(PriorityCalls("Push") /\ Len(container) >= 1) =>
          LET n == Len(container)
              new == Element(pqRet'.item, pqRet'.priority)
              parent == At(container, GoDiv(n - 1, 2))
          IN /\ parent.Priority >= new.Priority => container' = Append(container, new)
             /\ parent.Priority < new.Priority => At(container', n) = parent]_vars

\* C28: Push moves the new element above its parent when its priority is greater
\* than or equal to the parent's: it stays where it was appended only under a
\* parent of strictly greater priority, and otherwise the parent takes its place
\* and it rests under the first ancestor of strictly greater priority, or at the
\* root.
C28_EqualMovesAbove ==
    [][(PriorityCalls("Push") /\ Len(container) >= 1) =>
          LET n == Len(container)
              new == Element(pqRet'.item, pqRet'.priority)
              parent == At(container, GoDiv(n - 1, 2))
          IN /\ parent.Priority > new.Priority => container' = Append(container, new)
             /\ parent.Priority <= new.Priority =>
                   /\ At(container', n) = parent
                   /\ RestsAt(container, n, new.Priority) < n
                   /\ At(container', RestsAt(container, n, new.Priority)) = new]_vars

\* C28 witness: Push has put its element at the root, above an element of the
\* same priority and another item that is now last.
C28_Witness ==
    /\ pqRet.op = "Push"
    /\ Len(container) >= 2
    /\ container[1] = Element(pqRet.item, pqRet.priority)
    /\ container[Len(container)].Priority = pqRet.priority
    /\ container[Len(container)].Item # pqRet.item

\* C29: in every iteration of sift-down, in Pop and in heapify, that has a child
\* to look at, the right child is selected only when its priority is strictly
\* greater than the left child's, and the current element is swapped with the
\* selected child only when that child's priority is strictly greater than its
\* own; otherwise nothing is swapped and sift-down ends.
C29_SiftDownTies ==
    [][(hOp.pc = "sift" /\ 2 * hOp.i + 1 < hOp.length) =>
          LET i == hOp.i
              left == 2 * i + 1
              right == left + 1
              selected == IF /\ right < hOp.length
                             /\ At(hq, right).Priority > At(hq, left).Priority
                          THEN right ELSE left
          IN IF At(hq, selected).Priority > At(hq, i).Priority
             THEN /\ At(hq', i) = At(hq, selected)
                  /\ At(hq', selected) = At(hq, i)
                  /\ \A k \in 0..(Len(hq) - 1) :
                        k \notin {i, selected} => At(hq', k) = At(hq, k)
                  /\ hOp'.pc = "sift" /\ hOp'.i = selected
             ELSE hq' = hq /\ hOp'.pc # "sift"]_vars

\* C29 witness: heapify is in sift-down at the root of four elements, after an
\* iteration at index 1, with both children of the root and the root of one
\* priority and different items.
C29_Witness ==
    /\ hOp.pc = "sift" /\ hOp.op = "From" /\ hOp.i = 0
    /\ Len(hq) = 4
    /\ hq[1].Priority = hq[2].Priority
    /\ hq[2].Priority = hq[3].Priority
    /\ hq[1].Item # hq[2].Item

\* C30: the priority queue is not stable. Two elements of equal priority that
\* are pushed first and second and are both in the queue when the first Pop is
\* made, and that the first two Pops return, are returned in the opposite order:
\* the one pushed second comes out first.
C30_EqualPairIsReversed ==
    (/\ Len(tpops) >= 2
     /\ tpops[1].At >= 2
     /\ {tpops[1].Item, tpops[2].Item} = {1, 2}
     /\ tpops[1].Priority = tpops[2].Priority)
        => (tpops[1].Item = 2 /\ tpops[2].Item = 1)

\* C30 witness: two elements of equal priority were popped in the opposite
\* order to the one in which they were pushed: the one popped first was pushed
\* after the other.
C30_Witness ==
    \E i, j \in 1..Len(tpops) :
        /\ i < j
        /\ tpops[i].Priority = tpops[j].Priority
        /\ tpops[i].Item > tpops[j].Item

\* C31: From copies its input. The call leaves the caller's slice as it was and
\* gives the queue the heap of those elements, and what the caller writes into
\* its slice afterwards changes neither the contents of the queue nor what its
\* Pops return.
C31_FromCopies ==
    [][/\ AliasFrom =>
             /\ SliceOf(backing', callerSlice') = SliceOf(backing, callerSlice)
             /\ SliceOf(backing', owned') = init(SliceOf(backing, callerSlice))
       /\ (owned # NilSlice /\ \E k \in 1..MaxAlias, e \in Overwrites : CallerWrite(k, e)) =>
             /\ SliceOf(backing', owned') = SliceOf(backing, owned)
             /\ PopAll(SliceOf(backing', owned')) = PopAll(SliceOf(backing, owned))]_vars

\* C31 witness: the caller has overwritten its last element with one of the
\* highest priority after From, and the queue of as many elements holds none of
\* that priority.
C31_Witness ==
    /\ owned # NilSlice
    /\ owned.len = MaxAlias
    /\ callerSlice.len = MaxAlias
    /\ SliceOf(backing, callerSlice)[MaxAlias] = Element("y", MaxPriority)
    /\ \A k \in 1..owned.len : SliceOf(backing, owned)[k].Priority < MaxPriority

\* C32: Sort changes only parents sets: no step of a Sort changes the vertex
\* map, a payload, a children set or the edge counter; and once a Sort of a
\* graph without a cycle has returned without error, every parents set is empty.
C32_SortChangesOnlyParents ==
    /\ [][(SortIsCalled \/ pc = "loop") =>
             /\ DOMAIN vertices' = DOMAIN vertices
             /\ \A v \in DOMAIN vertices :
                   /\ vertices'[v].item = vertices[v].item
                   /\ vertices'[v].children = vertices[v].children
                   /\ vertices'[v].parents \subseteq vertices[v].parents
             /\ edges' = edges]_vars
    /\ []((/\ pc = "idle" /\ ret.op = "Sort" /\ ret.err = "none"
           /\ ~HasCycle(vertices))
          => \A v \in DOMAIN vertices : vertices[v].parents = {})

\* C32 witness: a Sort has returned without error on a graph without a cycle
\* that holds an edge: the child is still in its parent's children set and no
\* vertex has a parent.
C32_Witness ==
    /\ pc = "idle" /\ ret.op = "Sort" /\ ret.err = "none"
    /\ ~HasCycle(vertices)
    /\ edges >= 1
    /\ \E v \in DOMAIN vertices : vertices[v].children # {}
    /\ \A v \in DOMAIN vertices : vertices[v].parents = {}

\* The parents of v as the children sets have them, which Sort leaves alone.
ParentsOf(vs, v) == {u \in DOMAIN vs : v \in vs[u].children}

\* The length of the longest path to v from a vertex without parents.
RECURSIVE Depth(_, _)
Depth(vs, v) ==
    IF ParentsOf(vs, v) = {} THEN 0
    ELSE LET ds == {Depth(vs, u) : u \in ParentsOf(vs, v)}
         IN 1 + CHOOSE d \in ds : \A e \in ds : e <= d

\* The vertices the first Sort has dequeued so far, or all it returned.
Emitted ==
    IF pc = "loop" THEN result
    ELSE IF ret.op = "Sort" /\ ret.err = "none" THEN ret.result ELSE <<>>

\* C33: on a never-sorted graph without a cycle the first Sort dequeues the
\* vertices in non-decreasing order of depth, those without parents first; a
\* vertex is enqueued once, in the iteration that dequeues the last of its
\* parents, and every vertex is returned.
C33_SortGoesByDepth ==
    /\ [](sortCalls = 1 =>
            LET line == Emitted \o zeroInDegreeQueue
            IN /\ \A i, j \in 1..Len(line) :
                     i < j => /\ line[i] # line[j]
                              /\ Depth(vertices, line[i]) <= Depth(vertices, line[j])
               /\ (pc = "idle" /\ Order(vertices) > 0) =>
                     {line[i] : i \in 1..Len(line)} = DOMAIN vertices)
    /\ [][(sortCalls = 1 /\ pc = "loop" /\ pc' = "loop") =>
             LET vert == Head(zeroInDegreeQueue)
                 out == {Emitted'[i] : i \in 1..Len(Emitted')}
                 pushed == SubSeq(zeroInDegreeQueue', Len(zeroInDegreeQueue),
                                  Len(zeroInDegreeQueue'))
             IN /\ Emitted' = Append(Emitted, vert)
                /\ {pushed[i] : i \in 1..Len(pushed)} =
                      {c \in vertices[vert].children : ParentsOf(vertices, c) \subseteq out}]_vars

\* C33 witness: the first Sort has returned three vertices, the last of which
\* has one parent of depth 0 and one of depth 1.
C33_Witness ==
    /\ sortCalls = 1 /\ pc = "idle" /\ ret.op = "Sort" /\ ret.err = "none"
    /\ Len(ret.result) = 3
    /\ \E u, w \in ParentsOf(vertices, ret.result[3]) :
          Depth(vertices, u) = 0 /\ Depth(vertices, w) = 1

\* The connections the adjacency sets hold, as (parent, child) pairs.
Connections(vs) == {e \in (DOMAIN vs) \X (DOMAIN vs) : e[2] \in vs[e[1]].children}

\* C34: on a graph that Sort was not called on, Size is the number of distinct
\* (parent, child) connections in the children sets, also after an edge was
\* added more than once.
C34_SizeCountsConnections ==
    sortCalls = 0 => GraphSize(edges) = Cardinality(Connections(vertices))

\* C35: MostCommon(n) never pops from an empty queue: for every n >= 0, also
\* above the number of distinct items, each entry it returns is an item of the
\* counter with its count, and it returns at most Size() entries.
C35_MostCommonWithinSize ==
    ctrRet.op = "MostCommon" =>
        /\ Len(ctrRet.result) <= CounterSize(counts)
        /\ \A k \in 1..Len(ctrRet.result) :
              /\ ctrRet.result[k].Item \in DOMAIN counts
              /\ ctrRet.result[k].Value = counts[ctrRet.result[k].Item]

\* s from its last entry to its first.
Reversed(s) == [k \in 1..Len(s) |-> s[Len(s) + 1 - k]]

\* C36: after any Append, Prepend, Pop, PopFirst and Remove (of a node the
\* caller was returned and has not removed) the list is well formed: Len is the
\* number of nodes reachable from first by next, Backwards yields the reverse of
\* All, first has no prev and last has no next; and each removal takes exactly
\* one item out of the list.
C36_ListWellFormed ==
    /\ [](/\ list.len = Len(NodesOf(list))
          /\ BackwardsOf(list) = Reversed(ItemsOf(list))
          /\ list.first # 0 => list.nodes[list.first].prev = 0
          /\ list.last # 0 => list.nodes[list.last].next = 0)
    /\ [][(/\ \/ ListCalls("Remove")
              \/ ListCalls("Pop")
              \/ ListCalls("PopFirst")
           /\ lRet'.err = "none") =>
             \E k \in 1..Len(ItemsOf(list)) :
                ItemsOf(list') = WithoutAt(ItemsOf(list), k)]_vars

\* C37: Union returns the combination of its inputs in one new set: for any
\* number of input sets, one included, the set returned holds the items of all
\* the inputs, and an Insert into it or a Remove from it leaves every input set
\* as it was.
C37_UnionIsANewSet ==
    [][/\ (unionOut = 0 /\ unionOut' # 0) =>
             setHeap'[unionOut'] = UNION {setHeap[unionIn[k]] : k \in 1..Len(unionIn)}
       /\ (unionOut # 0 /\ unionOut' = unionOut) =>
             \A k \in 1..Len(unionIn) : setHeap'[unionIn[k]] = setHeap[unionIn[k]]]_vars

\* Both calls of Push have returned.
RaceDone == \A g \in Goroutines : rpc[g] = "done"

\* The queue holds what it held at first and the two elements pushed.
RaceHoldsAll ==
    BagOf(RContainer(rq)) = BagOf(rhist.initial \o <<rloc[1].elem, rloc[2].elem>>)

\* C38: the priority queue is not safe for concurrent access: two calls of Push
\* whose append and sift-up steps interleave can end with a pushed element
\* missing from the queue or with the max-heap property violated (the witness),
\* and it takes the interleaving: when one call returns before the other
\* starts, the queue holds both elements and is a max-heap.
C38_OnlySerialPushesAreSafe ==
    (RaceDone /\ ~rhist.overlapped) =>
        RaceHoldsAll /\ IsMaxHeap(RContainer(rq))

\* Two calls that overlapped have returned, and an element is missing or the
\* container is no max-heap.
C38_Witness ==
    /\ RaceDone
    /\ rhist.overlapped
    /\ ~RaceHoldsAll \/ ~IsMaxHeap(RContainer(rq))

\* k is an index of the container.
InContainer(k) == 0 <= k /\ k < Len(hq)

\* The indices the coming iteration of siftDown reads or writes.
SiftDownReads ==
    LET left == 2 * hOp.i + 1
    IN IF left >= hOp.length THEN {}
       ELSE {hOp.i, left} \cup (IF left + 1 < hOp.length THEN {left + 1} ELSE {})

\* C39: siftUp and siftDown never index outside the backing array. With Go's
\* truncating division the parent of index 0 is (0-1)/2 = 0, and every index
\* and parent that an iteration of siftUp uses, and every index that an
\* iteration of siftDown uses, is one of the container; a sift-up that is at
\* the root stops there and swaps nothing; Push into an empty queue leaves a
\* one-element heap holding the element; and heapify of a container of length
\* 0 or 1 performs no sift-down.
C39_SiftsStayInside ==
    /\ [](/\ GoDiv(0 - 1, 2) = 0
          /\ hOp.pc = "up" =>
                /\ InContainer(hOp.i)
                /\ InContainer(GoDiv(hOp.i - 1, 2))
          /\ hOp.pc = "sift" =>
                /\ hOp.i >= 0
                /\ \A k \in SiftDownReads : InContainer(k))
    /\ [][/\ (hOp.pc = "up" /\ hOp.i = 0) =>
                hq' = hq /\ hOp'.pc = "heap"
          /\ (hOp.pc = "heap" /\ Len(hq) = 0 /\ hOp'.pc = "up") =>
                /\ Len(hq') = 1
                /\ hOp'.i = 0
          /\ (hOp.pc = "up" /\ Len(hq) = 1) =>
                hq' = hq /\ hOp'.pc = "heap" /\ IsMaxHeap(hq')
          /\ (hOp.pc = "init" /\ hOp.op = "From" /\ Len(hq) <= 1) =>
                hq' = hq /\ hOp'.pc = "heap"]_vars

\* C39 witness: a sift-up has come to the root of a container of three elements
\* or more by swapping.
C39_Witness ==
    /\ hOp.pc = "up" /\ hOp.op = "Push" /\ hOp.i = 0
    /\ Len(hq) >= 3

====
